---- MODULE Spec2Model ----
(***************************************************************************)
(* Verification model of the coordinate validation, retry and iterative   *)
(* session engine of the Budsy testing agent.                              *)
(*                                                                         *)
(*   SpecCoord  : AppiumDriverManager pointer actions and                  *)
(*                _validateCoordinatesWithViewport (unnamed/part_005)      *)
(*   SpecLinear : VisualTestExecutor.executeVisualTest and                 *)
(*                _executeVisualActionStep (core/visual-test-executor.js)  *)
(*   Spec       : VisualTestExecutor.executeIterativeTest and              *)
(*                stopIterativeTest (core/visual-test-executor.js)         *)
(*                                                                         *)
(* Raw coordinates supplied by the AI backend may be fractional.  They are *)
(* counted in half pixels (hp): the value v stands for v/2 px.  Viewport   *)
(* sizes, scroll offsets, safe zones and processed bounding boxes are      *)
(* whole pixels (px).                                                      *)
(***************************************************************************)
EXTENDS Integers, Sequences, FiniteSets, TLC

VARIABLES
  \* ---- driver (SpecCoord) ----
  cx, cy,          \* the point handed to the driver, in hp
  cbox,            \* the bounding box handed along, or NoBox
  cwin,            \* what driver.getWindowSize() reports
  cvp,             \* what the in-page viewport query reports
  cprobe,          \* which of the queries of getViewportInfo fail
  pointer,         \* the pointer action dispatched to driver.performActions
  validated,       \* the result of _validateCoordinatesWithViewport
  \* ---- linear mode (SpecLinear) ----
  lpc, lTest, lNumSteps, lStep, lAttempt, lLastError, lGuidance,
  lGuidanceReqs, lActionExecs, lScrolls, lVerifications, lTestResults,
  lOutcome,
  lScreenshot,     \* currentScreenshot of the step in progress
  lPerformed,      \* what _performActionAtCoordinates was last called with
  lNewScreenshot,  \* newScreenshot, taken to verify the attempt just made
  \* ---- iterative mode (Spec) ----
  pc, options, maxSteps, currentTest, currentAction, stepNumber,
  executionResult, feedback, feedbackStep, execCalls, thrown, result,
  testResults, actionLogs,
  \* ---- concurrent sessions (SpecSessions) ----
  epc,             \* per executor: new, initialized or failed
  webLogger,       \* per executor: its webLogger field (0: null)
  aiWebLogger,     \* aiClient.webLogger of the exported singleton (0: null)
  aiRequests,      \* the AI requests made, with the logger each one used
  \* ---- typing into a field (SpecType) ----
  tpc, tOp,        \* position in, and name of, the typing function called
  dom,             \* the input elements of the page, in document order
  tAttempt,        \* the focus attempt of typeEmailAtCoordinates
  tLocated,        \* the answer of the locator script
  tFocusTarget,    \* the element the focus script focused (0: none)
  tActive,         \* document.activeElement (0: no input or textarea)
  tClicks,         \* fallback clicks dispatched
  tClearMethod,    \* the clearing method in progress (0: none yet)
  tValue,          \* the field value last read by _clearEmailField
  tOutcome,        \* how the typing function ended
  \* ---- one guidance request (SpecGuidance) ----
  gpc,             \* position in getVisualActionGuidance
  gRequest,        \* screenSize and instruction of the call
  gBackend,        \* response.data of the backend
  gEnhanced,       \* enhancedResult, as returned
  \* ---- the driver's action logs over successive sessions (SpecLogs) ----
  jpc,             \* position in executeIterativeTest
  jSession,        \* number of sessions started on this executor
  jStepNumber,     \* stepNumber of the running session
  jActionLogs,     \* this.driver.actionLogs
  jRecentLogs      \* recentLogs of the latest feedback request

coordVars == <<cx, cy, cbox, cwin, cvp, cprobe, pointer, validated>>
linearVars == <<lpc, lTest, lNumSteps, lStep, lAttempt, lLastError,
                lGuidance, lGuidanceReqs, lActionExecs, lScrolls, lVerifications,
                lTestResults, lOutcome, lScreenshot, lPerformed,
                lNewScreenshot>>
iterVars == <<pc, options, maxSteps, currentTest, currentAction,
              stepNumber, executionResult, feedback, feedbackStep, execCalls,
              thrown, result, testResults, actionLogs>>
sessVars == <<epc, webLogger, aiWebLogger, aiRequests>>
typeVars == <<tpc, tOp, dom, tAttempt, tLocated, tFocusTarget, tActive,
              tClicks, tClearMethod, tValue, tOutcome>>
guideVars == <<gpc, gRequest, gBackend, gEnhanced>>
logVars == <<jpc, jSession, jStepNumber, jActionLogs, jRecentLogs>>
vars == <<coordVars, linearVars, iterVars, sessVars, typeVars, guideVars,
          logVars>>

None == "none"

\* a JavaScript number that may be undefined
Undefined == <<>>
Num(n) == <<n>>

NoPointer == [op |-> "none"]
NoValidation == [absent |-> TRUE]
NoTest == [status |-> "no_active_test"]
NoAction == [action_type |-> "none", input_value |-> "undefined"]
NoFeedback == [absent |-> TRUE]
NoResult == [absent |-> TRUE]
NoExecution == [absent |-> TRUE]
NoOptions == [absent |-> TRUE]
NoError == [kind |-> "none"]
NoGuidance == [absent |-> TRUE]
NoScreenshot == [kind |-> "none", length |-> 0]
NoPerformed == [action |-> "none", alt |-> 0, confidence |-> 0]
NoLocated == [absent |-> TRUE]

Max(a, b) == IF a >= b THEN a ELSE b
Min(a, b) == IF a <= b THEN a ELSE b

(***************************************************************************)
(*                      Coordinate arithmetic                              *)
(***************************************************************************)

\* n whole pixels as a half-pixel count
Px(n) == 2 * n

\* Math.floor(v + 0.5) of a half-pixel value, as whole pixels
RoundHalfUp(v) == (v + 1) \div 2

\* Math.floor(v) of a half-pixel value, as whole pixels
Floor(v) == v \div 2

\* Math.max(lo, Math.min(v, hi)); yields lo when lo > hi
Clamp(v, lo, hi) == Max(lo, Min(v, hi))

NoBox == [absent |-> TRUE]

SafeMargin == 15
ToolbarFloor == 60
FallbackMargin == 10
FallbackChrome == 50

(***************************************************************************)
(* getViewportInfo.  probe = "ok": both queries answer.  "execute_fails":  *)
(* the in-page query (or the first window query) throws and the fallback   *)
(* window query answers.  The fallback viewport is the bare window size    *)
(* and carries no scrollX / scrollY.                                       *)
(***************************************************************************)
getViewportInfoNoToolbarFloor(win, vp, probe) ==
  IF probe = "ok"
  THEN LET chrome == [width  |-> win.width - vp.width,
                      height |-> win.height - vp.height]
       IN [window |-> win,
           viewport |-> [width |-> vp.width, height |-> vp.height,
                         hasScroll |-> TRUE,
                         scrollX |-> vp.scrollX, scrollY |-> vp.scrollY],
           browserChrome |-> chrome,
           safeZone |-> [minX |-> SafeMargin,
                         minY |-> chrome.height + SafeMargin,
                         maxX |-> vp.width - SafeMargin,
                         maxY |-> vp.height - SafeMargin]]
  ELSE [window |-> win,
        viewport |-> [width |-> win.width, height |-> win.height,
                      hasScroll |-> FALSE, scrollX |-> 0, scrollY |-> 0],
        browserChrome |-> [width |-> 0, height |-> FallbackChrome],
        safeZone |-> [minX |-> FallbackMargin,
                      minY |-> FallbackChrome,
                      maxX |-> win.width - FallbackMargin,
                      maxY |-> win.height - FallbackMargin]]

getViewportInfo(win, vp, probe) ==
  IF probe = "ok"
  THEN LET chrome == [width  |-> win.width - vp.width,
                      height |-> win.height - vp.height]
       IN [window |-> win,
           viewport |-> [width |-> vp.width, height |-> vp.height,
                         hasScroll |-> TRUE,
                         scrollX |-> vp.scrollX, scrollY |-> vp.scrollY],
           browserChrome |-> chrome,
           safeZone |-> [minX |-> SafeMargin,
                         minY |-> Max(ToolbarFloor, chrome.height + SafeMargin),
                         maxX |-> vp.width - SafeMargin,
                         maxY |-> vp.height - SafeMargin]]
  ELSE [window |-> win,
        viewport |-> [width |-> win.width, height |-> win.height,
                      hasScroll |-> FALSE, scrollX |-> 0, scrollY |-> 0],
        browserChrome |-> [width |-> 0, height |-> FallbackChrome],
        safeZone |-> [minX |-> FallbackMargin,
                      minY |-> FallbackChrome,
                      maxX |-> win.width - FallbackMargin,
                      maxY |-> win.height - FallbackMargin]]

MinBoxSize == 10
BoxInset == 2
WideElement == 200
FlatElement == 60

\* the "processed" bounding box: edges rounded half-up, width and height
\* floored, taken from the width / height fields unless they are falsy
ProcessBbox(b) ==
  [left   |-> RoundHalfUp(b.left),
   top    |-> RoundHalfUp(b.top),
   right  |-> RoundHalfUp(b.right),
   bottom |-> RoundHalfUp(b.bottom),
   width  |-> Floor(IF b.width # 0 THEN b.width ELSE b.right - b.left),
   height |-> Floor(IF b.height # 0 THEN b.height ELSE b.bottom - b.top)]

IsBboxValidNoMinSize(bb, viewport) ==
  /\ bb.left >= 0 /\ bb.top >= 0
  /\ bb.right <= viewport.width /\ bb.bottom <= viewport.height
  /\ bb.left < bb.right /\ bb.top < bb.bottom

IsBboxValid(bb, viewport) ==
  /\ bb.left >= 0 /\ bb.top >= 0
  /\ bb.right <= viewport.width /\ bb.bottom <= viewport.height
  /\ bb.left < bb.right /\ bb.top < bb.bottom
  /\ bb.width >= MinBoxSize /\ bb.height >= MinBoxSize

BboxTargetWideFrom200(bb) ==
  IF bb.width >= WideElement /\ bb.height < FlatElement
  THEN [x |-> bb.left + (bb.width \div 4),
        y |-> bb.top + (bb.height \div 2)]
  ELSE IF bb.width < WideElement /\ bb.height < FlatElement
  THEN [x |-> bb.left + (bb.width \div 2),
        y |-> bb.top + (bb.height \div 2)]
  ELSE [x |-> bb.left + ((2 * bb.width) \div 5),
        y |-> bb.top + ((2 * bb.height) \div 5)]

\* the retarget inside a processed bounding box, in px
BboxTarget(bb) ==
  IF bb.width > WideElement /\ bb.height < FlatElement
  THEN [x |-> bb.left + (bb.width \div 4),
        y |-> bb.top + (bb.height \div 2)]
  ELSE IF bb.width < WideElement /\ bb.height < FlatElement
  THEN [x |-> bb.left + (bb.width \div 2),
        y |-> bb.top + (bb.height \div 2)]
  ELSE [x |-> bb.left + ((2 * bb.width) \div 5),
        y |-> bb.top + ((2 * bb.height) \div 5)]

(***************************************************************************)
(* _validateCoordinatesWithViewport, as a pipeline of its four blocks.     *)
(* A stage is [x, y, nan, wasAdjusted, adjustmentReason]; x and y in hp.   *)
(* nan: x and y are both NaN (the screen-relative branch subtracts the     *)
(* undefined scroll offsets of a fallback viewport); every comparison with *)
(* NaN is false and Math.min / Math.max propagate it.                      *)
(***************************************************************************)
SnapStage(x, y) ==
  [x |-> Px(RoundHalfUp(x)), y |-> Px(RoundHalfUp(y)), nan |-> FALSE,
   wasAdjusted |-> FALSE, adjustmentReason |-> <<>>]

ScreenStage(s, x, y, vi) ==
  IF x > Px(vi.viewport.width) \/ y > Px(vi.viewport.height)
  THEN IF vi.viewport.hasScroll
       THEN [s EXCEPT !.x = Clamp(x - Px(vi.viewport.scrollX),
                                  Px(vi.safeZone.minX), Px(vi.safeZone.maxX)),
                      !.y = Clamp(y - Px(vi.viewport.scrollY),
                                  Px(vi.safeZone.minY), Px(vi.safeZone.maxY)),
                      !.wasAdjusted = TRUE,
                      !.adjustmentReason = <<"screen-relative">>]
       ELSE [s EXCEPT !.nan = TRUE,
                      !.wasAdjusted = TRUE,
                      !.adjustmentReason = <<"screen-relative">>]
  ELSE s

SafeZoneStage(s, vi) ==
  IF /\ ~s.nan
     /\ \/ s.x < Px(vi.safeZone.minX) \/ s.x > Px(vi.safeZone.maxX)
        \/ s.y < Px(vi.safeZone.minY) \/ s.y > Px(vi.safeZone.maxY)
  THEN [s EXCEPT !.x = Clamp(s.x, Px(vi.safeZone.minX), Px(vi.safeZone.maxX)),
                 !.y = Clamp(s.y, Px(vi.safeZone.minY), Px(vi.safeZone.maxY)),
                 !.wasAdjusted = TRUE,
                 !.adjustmentReason =
                     Append(s.adjustmentReason, <<"clamped", s.x, s.y>>)]
  ELSE s

BboxStage(s, vi, box) ==
  IF box = NoBox THEN s
  ELSE LET bb == ProcessBbox(box)
           inner == [left |-> bb.left + BoxInset, right |-> bb.right - BoxInset,
                     top |-> bb.top + BoxInset, bottom |-> bb.bottom - BoxInset]
           t == BboxTarget(bb)
       IN IF /\ IsBboxValid(bb, vi.viewport)
             /\ ~s.nan
             /\ \/ s.x < Px(inner.left) \/ s.x > Px(inner.right)
                \/ s.y < Px(inner.top) \/ s.y > Px(inner.bottom)
          THEN [s EXCEPT !.x = Px(Clamp(t.x, inner.left, inner.right)),
                         !.y = Px(Clamp(t.y, inner.top, inner.bottom)),
                         !.wasAdjusted = TRUE,
                         !.adjustmentReason =
                             Append(s.adjustmentReason, <<"bbox", s.x, s.y>>)]
          ELSE s

validateCoordinatesWithViewport(x, y, vi, box) ==
  LET s == BboxStage(SafeZoneStage(ScreenStage(SnapStage(x, y), x, y, vi), vi),
                     vi, box)
  IN [x |-> s.x, y |-> s.y, nan |-> s.nan, wasAdjusted |-> s.wasAdjusted,
      adjustmentReason |-> s.adjustmentReason, safeZone |-> vi.safeZone]

(***************************************************************************)
(*                 Driver pointer actions (SpecCoord)                      *)
(***************************************************************************)

Box(l, t, r, b, w, h) ==
  [left |-> Px(l), top |-> Px(t), right |-> Px(r), bottom |-> Px(b),
   width |-> Px(w), height |-> Px(h)]

\* bounding boxes as the AI backend may report them (hp)
Boxes ==
  { NoBox,
    Box(100, 100, 420, 140, 320, 40),   \* wide and flat: an input field
    Box(100, 100, 420, 140, 0, 0),      \* the same without width / height
    Box(600, 300, 680, 330, 0, 0),      \* narrow and flat: a button
    Box(200, 200, 400, 240, 0, 0),      \* exactly 200 px wide
    Box(300, 300, 700, 500, 0, 0),      \* a general element
    Box(100, 0, 300, 40, 0, 0),         \* an element under the toolbar floor
    Box(-5, 100, 200, 140, 0, 0),       \* negative left
    Box(1200, 100, 1300, 140, 0, 0),    \* right beyond the viewport
    Box(300, 100, 300, 140, 50, 0),     \* right = left
    Box(100, 100, 105, 140, 0, 0),      \* 5 px wide
    Box(10, 100, 13, 140, 50, 0),       \* 3 px between the edges, width 50
    [left |-> 201, top |-> 200, right |-> 841, bottom |-> 281,
     width |-> 0, height |-> 0] }       \* fractional edges

\* window size and in-page viewport, as the driver may report them (px)
Screens ==
  { [win |-> [width |-> 1280, height |-> 720],
     vp  |-> [width |-> 1280, height |-> 720, scrollX |-> 0, scrollY |-> 0]],
    [win |-> [width |-> 1280, height |-> 800],
     vp  |-> [width |-> 1280, height |-> 720, scrollX |-> 0, scrollY |-> 300]],
    [win |-> [width |-> 1280, height |-> 800],
     vp  |-> [width |-> 1280, height |-> 720, scrollX |-> 40, scrollY |-> 0]],
    \* half of the window taken by docked developer tools
    [win |-> [width |-> 1280, height |-> 800],
     vp  |-> [width |-> 1280, height |-> 300, scrollX |-> 0, scrollY |-> 0]] }

\* raw AI coordinates (hp): below zero, around the safe zone edges,
\* fractional, on and beyond the viewport edge, and screen-relative
PointXs == {-10, 29, 30, 361, 1280, 2531, 2560, 2562, 4000}
PointYs == {-10, 40, 119, 240, 601, 1411, 1440, 1442, 1800}

Probes == {"ok", "execute_fails", "window_fails"}

InSafeZone(p, sz) ==
  /\ ~p.nan
  /\ Px(sz.minX) <= p.x /\ p.x <= Px(sz.maxX)
  /\ Px(sz.minY) <= p.y /\ p.y <= Px(sz.maxY)

LinearIdle ==
  /\ lpc = "idle" /\ lTest = NoTest /\ lNumSteps = 0 /\ lStep = 0
  /\ lAttempt = 0 /\ lLastError = NoError /\ lGuidance = NoGuidance
  /\ lGuidanceReqs = 0
  /\ lActionExecs = 0 /\ lScrolls = 0 /\ lVerifications = 0
  /\ lTestResults = <<>> /\ lOutcome = NoResult
  /\ lScreenshot = NoScreenshot /\ lPerformed = NoPerformed
  /\ lNewScreenshot = NoScreenshot

IterIdle ==
  /\ pc = "idle" /\ options = NoOptions /\ maxSteps = 0
  /\ currentTest = NoTest /\ currentAction = NoAction /\ stepNumber = 0
  /\ executionResult = NoExecution /\ feedback = NoFeedback
  /\ feedbackStep = 0 /\ execCalls = 0 /\ thrown = None
  /\ result = NoResult /\ testResults = <<>> /\ actionLogs = <<>>

\* the two VisualTestExecutor instances of the claim on session isolation
Executors == {1, 2}

\* logger.js exports one default logger; a web logger is created per test
DefaultLogger == 0

SessIdle ==
  /\ epc = [e \in Executors |-> "new"]
  /\ webLogger = [e \in Executors |-> DefaultLogger]
  /\ aiWebLogger = DefaultLogger
  /\ aiRequests = <<>>

TypeIdle ==
  /\ tpc = "idle" /\ tOp = "none" /\ dom = <<>> /\ tAttempt = 0
  /\ tLocated = NoLocated /\ tFocusTarget = 0 /\ tActive = 0 /\ tClicks = 0
  /\ tClearMethod = 0 /\ tValue = "unread" /\ tOutcome = NoResult

LogIdle ==
  /\ jpc = "idle" /\ jSession = 0 /\ jStepNumber = 0
  /\ jActionLogs = <<>> /\ jRecentLogs = <<>>

GuideIdle ==
  /\ gpc = "idle" /\ gRequest = NoResult /\ gBackend = NoResult
  /\ gEnhanced = NoResult

CoordIdle ==
  /\ cx = 0 /\ cy = 0 /\ cbox = NoBox
  /\ cwin = [width |-> 0, height |-> 0]
  /\ cvp = [width |-> 0, height |-> 0, scrollX |-> 0, scrollY |-> 0]
  /\ cprobe = "ok" /\ pointer = NoPointer /\ validated = NoValidation

InitCoord ==
  /\ cx \in PointXs /\ cy \in PointYs /\ cbox \in Boxes
  /\ \E s \in Screens : cwin = s.win /\ cvp = s.vp
  /\ cprobe \in Probes
  /\ pointer = NoPointer /\ validated = NoValidation
  /\ LinearIdle /\ IterIdle /\ SessIdle /\ TypeIdle /\ GuideIdle /\ LogIdle

\* the common head of the validating pointer actions: getViewportInfo,
\* _validateCoordinatesWithViewport, then driver.performActions at the
\* validated point.  When the window query fails twice nothing is dispatched.
ValidatedPointer(op, box) ==
  /\ pointer = NoPointer
  /\ IF cprobe = "window_fails"
     THEN /\ validated' = NoValidation
          /\ pointer' = [op |-> op, dispatched |-> FALSE]
     ELSE LET vi == getViewportInfo(cwin, cvp, cprobe)
              v == validateCoordinatesWithViewport(cx, cy, vi, box)
          IN /\ validated' = v
             /\ pointer' = [op |-> op, dispatched |-> TRUE, x |-> v.x,
                            y |-> v.y, nan |-> v.nan, safeZone |-> vi.safeZone]
  /\ UNCHANGED <<cx, cy, cbox, cwin, cvp, cprobe, linearVars, iterVars, sessVars, typeVars, guideVars, logVars>>

clickAtCoordinates == ValidatedPointer("click", cbox)

\* the click fallback of typeAtCoordinates after a locator miss
typeAtCoordinates == ValidatedPointer("type", cbox)

\* the click fallback of typeEmailAtCoordinates after a locator miss
typeEmailAtCoordinates == ValidatedPointer("typeEmail", cbox)

\* doubleClickAtCoordinates moves the pointer to the point it was given;
\* it takes no bounding box and queries no viewport
doubleClickAtCoordinates ==
  /\ pointer = NoPointer
  /\ cbox = NoBox
  /\ cprobe = "ok"
  /\ pointer' = [op |-> "doubleClick", dispatched |-> TRUE, x |-> cx,
                 y |-> cy, nan |-> FALSE,
                 safeZone |-> getViewportInfo(cwin, cvp, cprobe).safeZone]
  /\ validated' = NoValidation
  /\ UNCHANGED <<cx, cy, cbox, cwin, cvp, cprobe, linearVars, iterVars, sessVars, typeVars, guideVars, logVars>>

NextCoord ==
  \/ clickAtCoordinates
  \/ doubleClickAtCoordinates
  \/ typeAtCoordinates
  \/ typeEmailAtCoordinates

SpecCoord == InitCoord /\ [][NextCoord]_vars

(***************************************************************************)
(*            Iterative mode: executeIterativeTest (Spec)                  *)
(***************************************************************************)

DefaultMaxSteps == 10

\* the largest maxSteps option a caller passes in the model
MaxStepsOpt == 3

\* options.maxSteps: not given, or a number 0..MaxStepsOpt
OptionSets ==
  {[given |-> FALSE, maxSteps |-> 0]}
    \cup {[given |-> TRUE, maxSteps |-> n] : n \in 0..MaxStepsOpt}

\* const maxSteps = options.maxSteps || 10
ResolveMaxSteps(o) ==
  IF o.given /\ o.maxSteps # 0 THEN o.maxSteps ELSE DefaultMaxSteps

\* the actions the AI backend sends in a session
SessionActions ==
  {[action_type |-> "click", input_value |-> "undefined"],
   [action_type |-> "type", input_value |-> "string"],
   [action_type |-> "type", input_value |-> "number"],
   [action_type |-> "type", input_value |-> "undefined"],
   [action_type |-> "scroll", input_value |-> "undefined"],
   [action_type |-> "double-click", input_value |-> "undefined"]}

\* the opening log statement of executeActionWithLogging, outside its try
\* block: action.input_value?.substring(0, 50) throws a TypeError when
\* input_value is neither absent nor a string
OpeningLogThrows(action) ==
  action.input_value \notin {"undefined", "string"}

\* the switch of executeActionWithLogging: does the branch of this action
\* reach a driver call that exists?  type and navigate need an input value;
\* case 'scroll' calls this.scrollPage, which AppiumDriverManager does not
\* define (its TypeError is caught like a driver failure); any other type
\* throws "Unsupported action type"
DispatchReachesDriver(action) ==
  \/ action.action_type \in {"click", "wait"}
  \/ /\ action.action_type \in {"type", "navigate"}
     /\ action.input_value # "undefined"

\* the message of the error thrown inside the switch before any driver call
DispatchError(action) ==
  CASE action.action_type = "scroll" -> "this.scrollPage is not a function"
    [] action.action_type = "type" -> "No input value provided for type action"
    [] action.action_type = "navigate" -> "No URL provided for navigate action"
    [] OTHER -> "Unsupported action type"

\* executeActionWithLogging: the action succeeds when its branch reaches the
\* driver, the driver call succeeds and the screenshot after it is taken;
\* on failure a second screenshot is attempted
executeActionWithLogging(action, driverOk, shotOk, retryShotOk) ==
  LET success == DispatchReachesDriver(action) /\ driverOk /\ shotOk
  IN [actionResult |-> [action_type |-> action.action_type,
                        success |-> success,
                        error_message |->
                          IF ~DispatchReachesDriver(action)
                          THEN DispatchError(action)
                          ELSE IF ~driverOk THEN "driver call failed"
                          ELSE IF ~shotOk THEN "screenshot failed"
                          ELSE None],
      screenshotAfter |-> IF success THEN TRUE ELSE retryShotOk]

\* what the backend answers to processIterativeFeedback
\* (issues_found defaults to [], reasoning is passed through)
FeedbackReports ==
  {[issues_found |-> <<>>, reasoning |-> "uncertain"],
   [issues_found |-> <<"issue">>, reasoning |-> "blocked"]}

Feedbacks ==
  {[task_completed |-> tc, should_continue |-> sc, next_action |-> na,
    issues_found |-> rp.issues_found, reasoning |-> rp.reasoning] :
     tc \in BOOLEAN, sc \in BOOLEAN,
     na \in SessionActions \cup {NoAction}, rp \in FeedbackReports}

\* the decision taken on a feedback (lines 1130-1189)
DecideContinueFirst(fb) ==
  IF ~fb.should_continue THEN "stopped"
  ELSE IF fb.task_completed THEN "completed"
  ELSE IF fb.next_action = NoAction THEN "break"
  ELSE "next"

Decide(fb) ==
  IF fb.task_completed THEN "completed"
  ELSE IF ~fb.should_continue THEN "stopped"
  ELSE IF fb.next_action = NoAction THEN "break"
  ELSE "next"

NewTest ==
  [status |-> "running", steps |-> <<>>, screenshots |-> <<>>,
   totalSteps |-> Undefined, issues |-> Undefined, error |-> None]

\* ---- the return statements and the catch / finally blocks ----

CompletedResult(ct, sn) ==
  [success |-> TRUE, status |-> "completed", totalSteps |-> Num(sn),
   steps |-> ct.steps, screenshots |-> ct.screenshots, error |-> None]

\* the stopped return value with the issues of the feedback left out
StoppedResultWithoutIssues(ct, sn, fb) ==
  [success |-> FALSE, status |-> "stopped", totalSteps |-> Num(sn),
   steps |-> ct.steps, screenshots |-> ct.screenshots, error |-> None,
   issues |-> <<>>, reasoning |-> fb.reasoning]

StoppedResult(ct, sn, fb) ==
  [success |-> FALSE, status |-> "stopped", totalSteps |-> Num(sn),
   steps |-> ct.steps, screenshots |-> ct.screenshots, error |-> None,
   issues |-> fb.issues_found, reasoning |-> fb.reasoning]

MaxStepsResult(ct, sn) ==
  [success |-> FALSE, status |-> "max_steps_reached",
   totalSteps |-> Num(sn - 1),
   steps |-> ct.steps, screenshots |-> ct.screenshots, error |-> None]

ErrorResultDroppingHistory(ct, msg) ==
  [success |-> FALSE, status |-> "error", totalSteps |-> Undefined,
   steps |-> <<>>, screenshots |-> <<>>, error |-> msg]

ErrorResult(ct, msg) ==
  [success |-> FALSE, status |-> "error", totalSteps |-> Undefined,
   steps |-> ct.steps, screenshots |-> ct.screenshots, error |-> msg]

\* the session record as the catch block leaves it
ErrorRecordKeepingStatus(ct, msg) == [ct EXCEPT !.error = msg]

ErrorRecord(ct, msg) == [ct EXCEPT !.status = "error", !.error = msg]

\* return res; finally { this.testResults.push(currentTest) }
Finish(ct, res, thr) ==
  /\ pc' = "returned"
  /\ currentTest' = ct
  /\ result' = res
  /\ thrown' = thr
  /\ testResults' = Append(testResults, ct.status)
  /\ execCalls' = execCalls

ReturnCompleted(ct, sn) ==
  Finish([ct EXCEPT !.status = "completed", !.totalSteps = Num(sn)],
         CompletedResult(ct, sn), thrown)

ReturnStopped(ct, sn, fb) ==
  Finish([ct EXCEPT !.status = "stopped", !.totalSteps = Num(sn),
                    !.issues = fb.issues_found],
         StoppedResult(ct, sn, fb), thrown)

ReturnMaxSteps(ct, sn) ==
  Finish([ct EXCEPT !.status = "max_steps_reached",
                    !.totalSteps = Num(sn - 1)],
         MaxStepsResult(ct, sn), thrown)

\* throw inside the try block: catch (error) { ... return {...} }
Catch(ct, msg) == Finish(ErrorRecord(ct, msg), ErrorResult(ct, msg), msg)

\* the loop head with a while condition that admits one more iteration
LoopTopOneMore(ct, ca, sn) ==
  IF ca # NoAction /\ sn <= maxSteps + 1
  THEN \E elapsed \in BOOLEAN :
         IF elapsed
         THEN Catch(ct, "Test execution timeout")
         ELSE /\ pc' = "await_execute"
              /\ currentTest' = ct
              /\ execCalls' = execCalls + 1
              /\ UNCHANGED <<result, thrown, testResults>>
  ELSE ReturnMaxSteps(ct, sn)

\* the head of a loop iteration: the while condition, the timeout check
\* and the call of executeActionWithLogging.  Date.now() is read once per
\* iteration; whether the timeout has elapsed then is the environment's.
LoopTop(ct, ca, sn) ==
  IF ca # NoAction /\ sn <= maxSteps
  THEN \E elapsed \in BOOLEAN :
         IF elapsed
         THEN Catch(ct, "Test execution timeout")
         ELSE /\ pc' = "await_execute"
              /\ currentTest' = ct
              /\ execCalls' = execCalls + 1
              /\ UNCHANGED <<result, thrown, testResults>>
  ELSE ReturnMaxSteps(ct, sn)

\* executeIterativeTest(instruction, options) up to its first await
Call ==
  /\ pc = "idle"
  /\ \E o \in OptionSets :
       /\ options' = o
       /\ maxSteps' = ResolveMaxSteps(o)
  /\ currentTest' = NewTest
  /\ pc' = "await_initial_screenshot"
  /\ UNCHANGED <<currentAction, stepNumber, executionResult, feedback,
                 feedbackStep, execCalls, thrown, result, testResults,
                 actionLogs>>

\* await this.driver.takeScreenshot() resolves or rejects
InitialScreenshot ==
  /\ pc = "await_initial_screenshot"
  /\ \E ok \in BOOLEAN :
       IF ok
       THEN /\ currentTest' =
                 [currentTest EXCEPT !.screenshots = Append(@, [step |-> 0])]
            /\ pc' = "await_screen_size"
            /\ UNCHANGED <<result, thrown, testResults, execCalls>>
       ELSE Catch(currentTest, "Failed to take screenshot")
  /\ UNCHANGED <<options, maxSteps, currentAction, stepNumber,
                 executionResult, feedback, feedbackStep, actionLogs>>

\* await this.driver.getScreenSize() resolves or rejects
ScreenSize ==
  /\ pc = "await_screen_size"
  /\ \E ok \in BOOLEAN :
       IF ok
       THEN /\ pc' = "await_start_session"
            /\ UNCHANGED <<currentTest, result, thrown, testResults,
                           execCalls>>
       ELSE Catch(currentTest, "Failed to get screen size")
  /\ UNCHANGED <<options, maxSteps, currentAction, stepNumber,
                 executionResult, feedback, feedbackStep, actionLogs>>

\* await this.aiClient.startIterativeSession(...) resolves with a first
\* action (possibly none) or rejects; then the first loop iteration starts
StartSession ==
  /\ pc = "await_start_session"
  /\ \/ /\ Catch(currentTest, "Session start failed")
        /\ UNCHANGED <<currentAction, stepNumber>>
     \/ \E first \in SessionActions \cup {NoAction} :
          /\ currentAction' = first
          /\ stepNumber' = 1
          /\ LoopTop(currentTest, first, 1)
  /\ UNCHANGED <<options, maxSteps, executionResult, feedback, feedbackStep,
                 actionLogs>>

\* the step record with the outcome of the action left out
StepResultAlwaysSuccessful(sn, er) ==
  [stepNumber |-> sn, success |-> TRUE]

\* stepResult (lines 1070-1077)
StepResult(sn, er) ==
  [stepNumber |-> sn, success |-> er.actionResult.success]

\* await this.driver.executeActionWithLogging(currentAction) resolves: the
\* step and its screenshot are recorded and feedback is requested.  It
\* rejects when its opening log statement throws (an input_value that is
\* not a string), before anything is recorded.
ExecuteDone ==
  /\ pc = "await_execute"
  /\ \/ /\ OpeningLogThrows(currentAction)
        /\ Catch(currentTest, "executeActionWithLogging failed")
        /\ UNCHANGED <<executionResult, actionLogs>>
     \/ /\ ~OpeningLogThrows(currentAction)
        /\ \E driverOk \in BOOLEAN, shotOk \in BOOLEAN,
              retryShotOk \in BOOLEAN :
             LET er == executeActionWithLogging(currentAction, driverOk,
                                                shotOk, retryShotOk)
                 step == StepResult(stepNumber, er)
             IN /\ executionResult' = er
                /\ currentTest' =
                     [currentTest EXCEPT
                        !.steps = Append(@, step),
                        !.screenshots = IF er.screenshotAfter
                                        THEN Append(@, [step |-> stepNumber])
                                        ELSE @]
                /\ actionLogs' = Append(actionLogs, er.actionResult.success)
        /\ pc' = "await_feedback"
        /\ UNCHANGED <<execCalls, thrown, result, testResults>>
  /\ UNCHANGED <<options, maxSteps, currentAction, stepNumber, feedback,
                 feedbackStep>>

\* await this.aiClient.processIterativeFeedback(...) resolves or rejects.
\* Without a post-action screenshot the request cannot be built
\* (currentScreenshot.length of null) and the call rejects.
FeedbackDone ==
  /\ pc = "await_feedback"
  /\ \/ /\ Catch(currentTest, "Iterative feedback failed")
        /\ UNCHANGED <<currentAction, stepNumber, feedback, feedbackStep>>
     \/ /\ executionResult.screenshotAfter
        /\ \E fb \in Feedbacks :
             /\ feedback' = fb
             /\ feedbackStep' = stepNumber
             /\ CASE Decide(fb) = "completed" ->
                       /\ ReturnCompleted(currentTest, stepNumber)
                       /\ UNCHANGED <<currentAction, stepNumber>>
                  [] Decide(fb) = "stopped" ->
                       /\ ReturnStopped(currentTest, stepNumber, feedback')
                       /\ UNCHANGED <<currentAction, stepNumber>>
                  [] Decide(fb) = "break" ->
                       /\ currentAction' = fb.next_action
                       /\ ReturnMaxSteps(currentTest, stepNumber)
                       /\ UNCHANGED stepNumber
                  [] OTHER ->
                       /\ currentAction' = fb.next_action
                       /\ stepNumber' = stepNumber + 1
                       /\ pc' = "await_delay"
                       /\ UNCHANGED <<currentTest, result, thrown,
                                      testResults, execCalls>>
  /\ UNCHANGED <<options, maxSteps, executionResult, actionLogs>>

\* the inter-step delay ends and the next loop iteration starts
DelayDone ==
  /\ pc = "await_delay"
  /\ LoopTop(currentTest, currentAction, stepNumber)
  /\ UNCHANGED <<options, maxSteps, currentAction, stepNumber,
                 executionResult, feedback, feedbackStep, actionLogs>>

\* stopIterativeTest(), called while the session is suspended at an await
stopIterativeTest ==
  /\ currentTest # NoTest
  /\ currentTest.status = "running"
  /\ currentTest' = [currentTest EXCEPT !.status = "stopped_by_user"]
  /\ UNCHANGED <<pc, options, maxSteps, currentAction, stepNumber,
                 executionResult, feedback, feedbackStep, execCalls, thrown,
                 result, testResults, actionLogs>>

Init ==
  /\ CoordIdle /\ LinearIdle /\ IterIdle /\ SessIdle /\ TypeIdle
  /\ GuideIdle /\ LogIdle

Next ==
  \/ Call /\ UNCHANGED <<coordVars, linearVars, sessVars, typeVars, guideVars, logVars>>
  \/ InitialScreenshot /\ UNCHANGED <<coordVars, linearVars, sessVars, typeVars, guideVars, logVars>>
  \/ ScreenSize /\ UNCHANGED <<coordVars, linearVars, sessVars, typeVars, guideVars, logVars>>
  \/ StartSession /\ UNCHANGED <<coordVars, linearVars, sessVars, typeVars, guideVars, logVars>>
  \/ ExecuteDone /\ UNCHANGED <<coordVars, linearVars, sessVars, typeVars, guideVars, logVars>>
  \/ FeedbackDone /\ UNCHANGED <<coordVars, linearVars, sessVars, typeVars, guideVars, logVars>>
  \/ DelayDone /\ UNCHANGED <<coordVars, linearVars, sessVars, typeVars, guideVars, logVars>>
  \/ stopIterativeTest /\ UNCHANGED <<coordVars, linearVars, sessVars, typeVars, guideVars, logVars>>

Spec == Init /\ [][Next]_vars

(***************************************************************************)
(*   Linear mode: executeVisualTest and _executeVisualActionStep           *)
(*   (SpecLinear)                                                          *)
(***************************************************************************)

\* const maxRetries = 3
maxRetries == 3

\* the largest number of action steps an instruction is parsed into
MaxActionSteps == 2

\* confidences are percentages: 70 stands for 0.7
AltConfidenceThreshold == 70
LowConfidenceLimit == 80

\* what getVisualActionGuidance resolves with.  actionType is the
\* action_type of the backend as sent: in another case, or "" when it is
\* missing.  alternativeActions lists the confidences of the alternatives.
Guidances ==
  [success : BOOLEAN,
   confidence : {0, 50, 90},
   actionType : {"click", "Click", "type", ""},
   alternativeActions : {<<>>, <<60>>, <<80>>, <<60, 90>>, <<80, 90>>}]

\* String.prototype.toLowerCase on the action types of the model
ToLowerCase(str) == IF str = "Click" THEN "click" ELSE str

\* the branch of the switch in _performActionAtCoordinates:
\* (action_type || actionType || 'click').toLowerCase(), where an unknown
\* type falls to the default branch, which clicks
PerformedAction(g) ==
  LET actionType == ToLowerCase(IF g.actionType = "" THEN "click"
                                ELSE g.actionType)
  IN IF actionType \in {"click", "double-click", "type", "scroll", "wait"}
     THEN actionType
     ELSE "click"

\* the lengths of the base64 screenshots the driver returns
ScreenshotLengths == {1000, 1010, 1011}

Screenshot(kind, length) == [kind |-> kind, length |-> length]

\* _hasUIChanged: lengthDiff > screenshot1.length * 0.01
hasUIChangedAlways(screenshot1, screenshot2) == TRUE

hasUIChanged(screenshot1, screenshot2) ==
  IF screenshot1.length = 0 \/ screenshot2.length = 0
  THEN TRUE
  ELSE LET lengthDiff == IF screenshot1.length >= screenshot2.length
                         THEN screenshot1.length - screenshot2.length
                         ELSE screenshot2.length - screenshot1.length
       IN lengthDiff * 100 > screenshot1.length

\* errors: what failed, in which attempt, and whether the message contains
\* 'could not find'
Error(kind, attempt, notFound) ==
  [kind |-> kind, attempt |-> attempt, notFound |-> notFound]

\* the index of the first alternative action with confidence > 0.7, or 0
FirstQualifyingAlt(alts) ==
  IF \E i \in 1..Len(alts) : alts[i] > AltConfidenceThreshold
  THEN CHOOSE i \in 1..Len(alts) :
         /\ alts[i] > AltConfidenceThreshold
         /\ \A j \in 1..(i - 1) : alts[j] <= AltConfidenceThreshold
  ELSE 0

\* does an unsuccessful guidance lead to the execution of an alternative?
\* (a confidence of 0 is falsy)
UsesAlternative(g) ==
  /\ ~g.success
  /\ g.confidence # 0 /\ g.confidence < LowConfidenceLimit
  /\ FirstQualifyingAlt(g.alternativeActions) # 0

\* the guidance _performActionAtCoordinates is called with: the guidance
\* itself, or altGuidance with the confidence of the alternative in use
Performed(g) ==
  LET i == IF g.success THEN 0 ELSE FirstQualifyingAlt(g.alternativeActions)
  IN [action |-> PerformedAction(g), alt |-> i,
      confidence |-> IF i = 0 THEN g.confidence
                     ELSE g.alternativeActions[i]]

NewLinearTest ==
  [steps |-> <<>>, screenshots |-> 0,
   result |-> [set |-> FALSE, success |-> FALSE, error |-> NoError]]

\* _recordSuccessfulStep
recordSuccessfulStep(t, stepNo, attempt) ==
  [t EXCEPT !.steps = Append(@, [stepNumber |-> stepNo, success |-> TRUE,
                                 attempts |-> attempt])]

\* the record pushed after the retry loop (lines 651-661)
recordFailedStep(t, stepNo) ==
  [t EXCEPT !.steps = Append(@, [stepNumber |-> stepNo, success |-> FALSE,
                                 attempts |-> maxRetries])]

\* the catch block of executeVisualTest: record the failure and rethrow
RejectTest(t, err) ==
  /\ lTest' = [t EXCEPT !.result = [set |-> TRUE, success |-> FALSE,
                                    error |-> err]]
  /\ lTestResults' = Append(lTestResults, FALSE)
  /\ lOutcome' = [kind |-> "rejected", error |-> err]
  /\ lpc' = "rejected"

\* the loop header of _executeVisualActionStep with attempt = a: either the
\* next guidance request is issued, or the loop is over, the step is
\* recorded as failed and lastError is thrown into executeVisualTest
AttemptLoopSwallowing(t, a, lastErr) ==
  IF a <= maxRetries
  THEN /\ lAttempt' = a
       /\ lGuidanceReqs' = lGuidanceReqs + 1
       /\ lLastError' = lastErr
       /\ lpc' = "await_guidance"
       /\ lTest' = t
       /\ UNCHANGED <<lTestResults, lOutcome>>
  ELSE /\ lAttempt' = a
       /\ lLastError' = lastErr
       /\ lTest' = recordFailedStep(t, lStep)
       /\ lpc' = "await_step_screenshot"
       /\ UNCHANGED <<lGuidanceReqs, lTestResults, lOutcome>>

AttemptLoopOffByOne(t, a, lastErr) ==
  IF a <= maxRetries + 1
  THEN /\ lAttempt' = a
       /\ lGuidanceReqs' = lGuidanceReqs + 1
       /\ lLastError' = lastErr
       /\ lpc' = "await_guidance"
       /\ lTest' = t
       /\ UNCHANGED <<lTestResults, lOutcome>>
  ELSE /\ lAttempt' = a
       /\ lLastError' = lastErr
       /\ RejectTest(recordFailedStep(t, lStep), lastErr)
       /\ UNCHANGED lGuidanceReqs

AttemptLoop(t, a, lastErr) ==
  IF a <= maxRetries
  THEN /\ lAttempt' = a
       /\ lGuidanceReqs' = lGuidanceReqs + 1
       /\ lLastError' = lastErr
       /\ lpc' = "await_guidance"
       /\ lTest' = t
       /\ UNCHANGED <<lTestResults, lOutcome>>
  ELSE /\ lAttempt' = a
       /\ lLastError' = lastErr
       /\ RejectTest(recordFailedStep(t, lStep), lastErr)
       /\ UNCHANGED lGuidanceReqs

\* the for loop of executeVisualTest over n action steps, with i + 1 =
\* stepNo: the next step starts with its first attempt, or the final
\* verification is requested
StepLoop(t, stepNo, n) ==
  IF stepNo <= n
  THEN /\ lStep' = stepNo
       /\ lAttempt' = 1
       /\ lLastError' = NoError
       /\ lGuidanceReqs' = 1
       /\ lActionExecs' = 0
       /\ lScrolls' = 0
       /\ lpc' = "await_guidance"
       /\ lTest' = t
       /\ UNCHANGED <<lVerifications, lTestResults, lOutcome>>
  ELSE /\ lpc' = "await_verification"
       /\ lVerifications' = lVerifications + 1
       /\ lTest' = t
       /\ UNCHANGED <<lStep, lAttempt, lLastError, lGuidanceReqs,
                      lActionExecs, lScrolls, lTestResults, lOutcome>>

\* the catch block of the retry loop (lines 627-646) up to its first await
CatchAttempt(err) ==
  IF lAttempt < maxRetries
  THEN /\ lLastError' = err
       /\ lpc' = "await_retry_screenshot"
       /\ UNCHANGED <<lTest, lAttempt, lGuidanceReqs, lTestResults, lOutcome>>
  ELSE AttemptLoop(lTest, lAttempt + 1, err)

\* executeVisualTest(instruction, url, options) up to its first await
executeVisualTest ==
  /\ lpc = "idle"
  /\ lTest' = NewLinearTest
  /\ lpc' = "await_prepare"
  /\ UNCHANGED <<lNumSteps, lStep, lAttempt, lLastError, lGuidance,
                 lGuidanceReqs, lActionExecs, lScrolls, lVerifications,
                 lTestResults, lOutcome, lScreenshot, lPerformed,
                 lNewScreenshot>>

\* navigation, screen size and initial screenshot succeed and the instruction
\* is parsed into n action steps, or one of the driver calls throws
Prepare ==
  /\ lpc = "await_prepare"
  /\ \/ /\ RejectTest(lTest, Error("driver_failed", 0, FALSE))
        /\ UNCHANGED <<lNumSteps, lStep, lAttempt, lLastError, lGuidanceReqs,
                       lActionExecs, lScrolls, lVerifications, lScreenshot>>
     \/ \E n \in 0..MaxActionSteps, length \in ScreenshotLengths :
          /\ lNumSteps' = n
          /\ lScreenshot' = Screenshot("initial", length)
          /\ StepLoop([lTest EXCEPT !.screenshots = @ + 1], 1, n)
  /\ UNCHANGED <<lGuidance, lPerformed, lNewScreenshot>>

\* await this.aiClient.getVisualActionGuidance(...) resolves or rejects
GuidanceDone ==
  /\ lpc = "await_guidance"
  /\ \/ /\ CatchAttempt(Error("guidance_failed", lAttempt, FALSE))
        /\ UNCHANGED <<lGuidance, lActionExecs, lPerformed>>
     \/ \E g \in Guidances :
          /\ lGuidance' = g
          /\ IF g.success \/ UsesAlternative(g)
             THEN /\ lpc' = "await_action"
                  /\ lActionExecs' = lActionExecs + 1
                  /\ lPerformed' = Performed(g)
                  /\ UNCHANGED <<lTest, lAttempt, lLastError, lGuidanceReqs,
                                 lTestResults, lOutcome>>
             ELSE /\ CatchAttempt(Error("could_not_find", lAttempt, TRUE))
                  /\ UNCHANGED <<lActionExecs, lPerformed>>
  /\ lNewScreenshot' = NoScreenshot
  /\ UNCHANGED <<lNumSteps, lStep, lScrolls, lVerifications, lScreenshot>>

\* the step returns to executeVisualTest, which takes the screenshot after
\* the step
StepSucceeded(attempt) ==
  /\ lTest' = recordSuccessfulStep(lTest, lStep, attempt)
  /\ lpc' = "await_step_screenshot"
  /\ UNCHANGED <<lAttempt, lLastError, lGuidanceReqs, lTestResults, lOutcome>>

\* await this._performActionAtCoordinates(...) resolves or rejects
ActionDone ==
  /\ lpc = "await_action"
  /\ \/ \E notFound \in BOOLEAN :
          CatchAttempt(Error("action_failed", lAttempt, notFound))
     \/ IF UsesAlternative(lGuidance)
        THEN StepSucceeded(lAttempt)
        ELSE IF lAttempt < maxRetries
        THEN /\ lpc' = "await_verify_screenshot"
             /\ UNCHANGED <<lTest, lAttempt, lLastError, lGuidanceReqs,
                            lTestResults, lOutcome>>
        ELSE StepSucceeded(lAttempt)
  /\ UNCHANGED <<lNumSteps, lStep, lGuidance, lActionExecs, lScrolls,
                 lVerifications, lScreenshot, lPerformed, lNewScreenshot>>

\* the screenshot taken to verify a non-final attempt resolves or rejects;
\* an unchanged UI after a click starts the next attempt
VerifyScreenshotDone ==
  /\ lpc = "await_verify_screenshot"
  /\ \/ /\ CatchAttempt(Error("screenshot_failed", lAttempt, FALSE))
        /\ UNCHANGED <<lScreenshot, lNewScreenshot>>
     \/ \E length \in ScreenshotLengths :
          LET newScreenshot == Screenshot("after", length)
              uiChanged == hasUIChanged(lScreenshot, newScreenshot)
          IN /\ lNewScreenshot' = newScreenshot
             /\ IF ~uiChanged /\ lGuidance.actionType = "click"
                THEN /\ lScreenshot' = newScreenshot
                     /\ AttemptLoop(lTest, lAttempt + 1, lLastError)
                ELSE /\ StepSucceeded(lAttempt)
                     /\ UNCHANGED lScreenshot
  /\ UNCHANGED <<lNumSteps, lStep, lGuidance, lActionExecs, lScrolls,
                 lVerifications, lPerformed>>

\* error.message.includes('could not find') && attempt === 2
ScrollsBeforeEveryRetry(error, attempt) == error.notFound

ScrollsBeforeRetry(error, attempt) == error.notFound /\ attempt = 2

\* the screenshot taken in the catch block before a retry resolves or
\* rejects; a rejection leaves _executeVisualActionStep without a record
RetryScreenshotDone ==
  /\ lpc = "await_retry_screenshot"
  /\ \/ /\ RejectTest(lTest, Error("screenshot_failed", lAttempt, FALSE))
        /\ UNCHANGED <<lAttempt, lLastError, lGuidanceReqs, lScrolls,
                       lScreenshot>>
     \/ \E length \in ScreenshotLengths :
          /\ lScreenshot' = Screenshot("retry", length)
          /\ IF ScrollsBeforeRetry(lLastError, lAttempt)
             THEN /\ lpc' = "await_scroll"
                  /\ lScrolls' = lScrolls + 1
                  /\ UNCHANGED <<lTest, lAttempt, lLastError, lGuidanceReqs,
                                 lTestResults, lOutcome>>
             ELSE /\ AttemptLoop(lTest, lAttempt + 1, lLastError)
                  /\ UNCHANGED lScrolls
  /\ UNCHANGED <<lNumSteps, lStep, lGuidance, lActionExecs, lVerifications,
                 lPerformed, lNewScreenshot>>

\* the scroll before the third attempt and the screenshot after it
ScrollDone ==
  /\ lpc = "await_scroll"
  /\ \/ /\ RejectTest(lTest, Error("scroll_failed", lAttempt, FALSE))
        /\ UNCHANGED <<lAttempt, lLastError, lGuidanceReqs, lScreenshot>>
     \/ \E length \in ScreenshotLengths :
          /\ lScreenshot' = Screenshot("after_scroll", length)
          /\ AttemptLoop(lTest, lAttempt + 1, lLastError)
  /\ UNCHANGED <<lNumSteps, lStep, lGuidance, lActionExecs, lScrolls,
                 lVerifications, lPerformed, lNewScreenshot>>

\* the screenshot after a step (line 117) resolves or rejects
StepScreenshotDone ==
  /\ lpc = "await_step_screenshot"
  /\ \/ /\ RejectTest(lTest, Error("screenshot_failed", 0, FALSE))
        /\ UNCHANGED <<lStep, lAttempt, lLastError, lGuidanceReqs,
                       lActionExecs, lScrolls, lVerifications, lScreenshot>>
     \/ \E length \in ScreenshotLengths :
          /\ lScreenshot' = Screenshot("step", length)
          /\ StepLoop([lTest EXCEPT !.screenshots = @ + 1], lStep + 1,
                      lNumSteps)
  /\ lNewScreenshot' = NoScreenshot
  /\ UNCHANGED <<lNumSteps, lGuidance, lPerformed>>

\* _performFinalVisualVerification resolves (it catches its own errors)
VerificationDone ==
  /\ lpc = "await_verification"
  /\ \E ok \in BOOLEAN :
       /\ lTest' = [lTest EXCEPT !.result = [set |-> TRUE, success |-> ok,
                                             error |-> NoError]]
       /\ lTestResults' = Append(lTestResults, ok)
       /\ lOutcome' = [kind |-> "resolved", success |-> ok]
  /\ lpc' = "resolved"
  /\ UNCHANGED <<lNumSteps, lStep, lAttempt, lLastError, lGuidance,
                 lGuidanceReqs, lActionExecs, lScrolls, lVerifications,
                 lScreenshot, lPerformed, lNewScreenshot>>

NextLinear ==
  \/ executeVisualTest /\ UNCHANGED <<coordVars, iterVars, sessVars, typeVars, guideVars, logVars>>
  \/ Prepare /\ UNCHANGED <<coordVars, iterVars, sessVars, typeVars, guideVars, logVars>>
  \/ GuidanceDone /\ UNCHANGED <<coordVars, iterVars, sessVars, typeVars, guideVars, logVars>>
  \/ ActionDone /\ UNCHANGED <<coordVars, iterVars, sessVars, typeVars, guideVars, logVars>>
  \/ VerifyScreenshotDone /\ UNCHANGED <<coordVars, iterVars, sessVars, typeVars, guideVars, logVars>>
  \/ RetryScreenshotDone /\ UNCHANGED <<coordVars, iterVars, sessVars, typeVars, guideVars, logVars>>
  \/ ScrollDone /\ UNCHANGED <<coordVars, iterVars, sessVars, typeVars, guideVars, logVars>>
  \/ StepScreenshotDone /\ UNCHANGED <<coordVars, iterVars, sessVars, typeVars, guideVars, logVars>>
  \/ VerificationDone /\ UNCHANGED <<coordVars, iterVars, sessVars, typeVars, guideVars, logVars>>

SpecLinear == Init /\ [][NextLinear]_vars

(***************************************************************************)
(*   Concurrent sessions: two VisualTestExecutor instances and the         *)
(*   aiClient singleton they import (SpecSessions)                         *)
(***************************************************************************)

\* the largest number of AI requests followed
MaxAiRequests == 3

\* the logger getter of AIClient: this.webLogger || logger
AiClientLogger(w) == IF w # DefaultLogger THEN w ELSE DefaultLogger

\* the web server gives the executor of a test its own web logger
\* (executor.webLogger = webLogger) before it initializes it
interceptExecutorLogs(e) ==
  /\ epc[e] = "new"
  /\ webLogger[e] = DefaultLogger
  /\ webLogger' = [webLogger EXCEPT ![e] = e]
  /\ UNCHANGED <<epc, aiWebLogger, aiRequests>>

\* initialize(options): an executor with a web logger stores it in the
\* aiClient it imported, then the health check and the driver start either
\* succeed or throw
initialize(e) ==
  /\ epc[e] = "new"
  /\ aiWebLogger' = IF webLogger[e] # DefaultLogger THEN webLogger[e]
                    ELSE aiWebLogger
  /\ \E ok \in BOOLEAN :
       epc' = [epc EXCEPT ![e] = IF ok THEN "initialized" ELSE "failed"]
  /\ UNCHANGED <<webLogger, aiRequests>>

\* a request of the session of executor e to the AI client
\* (getVisualActionGuidance, startIterativeSession, processIterativeFeedback):
\* this.logger.aiRequest(...) goes to the logger of the AI client
aiRequest(e) ==
  /\ epc[e] = "initialized"
  /\ Len(aiRequests) < MaxAiRequests
  /\ aiRequests' = Append(aiRequests, [session |-> e,
                                       logger |-> AiClientLogger(aiWebLogger)])
  /\ UNCHANGED <<epc, webLogger, aiWebLogger>>

NextSessions ==
  \/ \E e \in Executors :
       interceptExecutorLogs(e) /\ UNCHANGED <<coordVars, linearVars, iterVars, typeVars, guideVars, logVars>>
  \/ \E e \in Executors :
       initialize(e) /\ UNCHANGED <<coordVars, linearVars, iterVars, typeVars, guideVars, logVars>>
  \/ \E e \in Executors :
       aiRequest(e) /\ UNCHANGED <<coordVars, linearVars, iterVars, typeVars, guideVars, logVars>>

SpecSessions == Init /\ [][NextSessions]_vars

(***************************************************************************)
(*   Typing into a field: typeAtCoordinates, typeEmailAtCoordinates and    *)
(*   _clearEmailField (SpecType)                                           *)
(***************************************************************************)

\* for (let attempt = 1; attempt <= 3; attempt++)
FocusAttempts == 3

\* distance limits of the nearby searches, in px
NearEmailInput == 100
NearInput == 50

\* the largest number of input elements in the page
MaxInputs == 2

\* the emailPatterns of the pattern-match strategy, in their order
EmailPatterns ==
  <<"input[autocomplete*=email]", "input[name=email]", "input[name=username]",
    "input[id=email]", "input[id*=email]", "input[class*=email]",
    "input[data-testid*=email]">>

\* An input or textarea element as the in-page scripts see it from the
\* point (x, y):
\*   visible  : its rectangle has width > 0 and height > 0
\*   inView   : its rectangle has top >= 0 and left >= 0
\*   top      : it is document.elementFromPoint(x, y)
\*   atPoint  : it is in document.elementsFromPoint(x, y)
\*   child    : it is a descendant of an element at the point
\*   broad    : it matches 'input[type="email"], input[type="text"],
\*              input[placeholder*="email" i], ...'
\*   contains : its rectangle contains the point
\*   dist     : distance from the centre of its rectangle to the point, px
\*   patterns : the indices of the EmailPatterns it matches
\*   usable   : neither disabled nor readOnly
Input(tag, visible, inView, top, atPoint, child, broad, contains, dist, patterns, disabled, readOnly) ==
  [tag |-> tag, visible |-> visible, inView |-> inView, top |-> top,
   atPoint |-> atPoint, child |-> child, broad |-> broad,
   contains |-> contains, dist |-> dist, patterns |-> patterns,
   disabled |-> disabled, readOnly |-> readOnly]

InputKinds ==
  { \* <input type=email name=email> under the point
    Input("input", TRUE, TRUE, TRUE, TRUE, FALSE, TRUE, TRUE, 30, {2}, FALSE, FALSE),
    \* the same, disabled
    Input("input", TRUE, TRUE, TRUE, TRUE, FALSE, TRUE, TRUE, 30, {2}, TRUE,
          FALSE),
    \* <input type=text readonly> under the point
    Input("input", TRUE, TRUE, TRUE, TRUE, FALSE, TRUE, TRUE, 30, {}, FALSE,
          TRUE),
    \* a hidden, disabled and read-only <input type=text> 30 px away
    Input("input", FALSE, TRUE, FALSE, FALSE, FALSE, TRUE, FALSE, 30, {},
          TRUE, TRUE),
    \* <textarea> under the point
    Input("textarea", TRUE, TRUE, TRUE, TRUE, FALSE, FALSE, TRUE, 30, {},
          FALSE, FALSE),
    \* <input type=password> under the point, covered by an overlay
    Input("input", TRUE, TRUE, FALSE, TRUE, FALSE, FALSE, TRUE, 30, {}, FALSE, FALSE),
    \* <input type=text> inside the container under the point
    Input("input", TRUE, TRUE, FALSE, FALSE, TRUE, TRUE, FALSE, 80, {}, FALSE, FALSE),
    \* <input type=checkbox> inside the container under the point
    Input("input", TRUE, TRUE, FALSE, FALSE, TRUE, FALSE, FALSE, 80, {},
          FALSE, FALSE),
    \* a hidden <input type=text id=email> inside the container
    Input("input", FALSE, TRUE, FALSE, FALSE, TRUE, TRUE, FALSE, 30, {4, 5},
          FALSE, FALSE),
    \* a wide <input type=text> whose rectangle contains the point but
    \* which takes no pointer events
    Input("input", TRUE, TRUE, FALSE, FALSE, FALSE, TRUE, TRUE, 150, {},
          FALSE, FALSE),
    \* <input type=text class=email> 30 px away
    Input("input", TRUE, TRUE, FALSE, FALSE, FALSE, TRUE, FALSE, 30, {6},
          FALSE, FALSE),
    \* <input type=email name=email> 80 px away
    Input("input", TRUE, TRUE, FALSE, FALSE, FALSE, TRUE, FALSE, 80, {2},
          FALSE, FALSE),
    \* <input type=email name=email> 150 px away
    Input("input", TRUE, TRUE, FALSE, FALSE, FALSE, TRUE, FALSE, 150, {2},
          FALSE, FALSE),
    \* <input name=username> (no type attribute) 80 px away
    Input("input", TRUE, TRUE, FALSE, FALSE, FALSE, FALSE, FALSE, 80, {3},
          FALSE, FALSE),
    \* <input class=email> (no type attribute) 30 px away
    Input("input", TRUE, TRUE, FALSE, FALSE, FALSE, FALSE, FALSE, 30, {6},
          FALSE, FALSE),
    \* <input type=text> 30 px away, scrolled partly above the viewport
    Input("input", TRUE, FALSE, FALSE, FALSE, FALSE, TRUE, FALSE, 30, {},
          FALSE, FALSE) }

\* the input elements of a page in document order; at most one element is
\* the topmost element at the point
Doms ==
  { d \in UNION {[1..n -> InputKinds] : n \in 0..MaxInputs} :
      Cardinality({i \in 1..Len(d) : d[i].top}) <= 1 }

\* the first element of a set of indices in document order, or 0
FirstIn(S) == IF S = {} THEN 0 ELSE CHOOSE i \in S : \A j \in S : i <= j

\* the element of S closest to the point, the earlier one on a tie, or 0
Closest(d, S) ==
  IF S = {} THEN 0
  ELSE CHOOSE i \in S :
         \A j \in S : d[i].dist < d[j].dist
                        \/ (d[i].dist = d[j].dist /\ i <= j)

NotFoundReportedFound ==
  [found |-> TRUE, element |-> 0, method |-> "none", pattern |-> 0]

\* return { found: false, ... }
NotFound == [found |-> FALSE, element |-> 0, method |-> "none", pattern |-> 0]
Found(element, method, pattern) ==
  [found |-> TRUE, element |-> element, method |-> method, pattern |-> pattern]

\* visible inputs among the elements at the point, the topmost first (the
\* order of the others is taken as document order)
StackInput(d) ==
  LET S == {i \in 1..Len(d) : d[i].atPoint /\ d[i].tag = "input"
                                 /\ d[i].visible}
  IN IF \E i \in S : d[i].top THEN CHOOSE i \in S : d[i].top ELSE FirstIn(S)

\* visible inputs matching the broad selector
BroadInputs(d) == {i \in 1..Len(d) : d[i].tag = "input" /\ d[i].broad
                                        /\ d[i].visible}

\* visible inputs within 100 px matching email pattern p
PatternInputs(d, p) ==
  {i \in 1..Len(d) : d[i].tag = "input" /\ p \in d[i].patterns
                       /\ d[i].visible /\ d[i].dist <= NearEmailInput}

\* the first email pattern, in the order of EmailPatterns, with a match
FirstPattern(d) ==
  IF \E p \in 1..Len(EmailPatterns) : PatternInputs(d, p) # {}
  THEN CHOOSE p \in 1..Len(EmailPatterns) :
         /\ PatternInputs(d, p) # {}
         /\ \A q \in 1..(p - 1) : PatternInputs(d, q) = {}
  ELSE 0

\* the locator script of typeEmailAtCoordinates (strategies 1 to 5)
LocateEmailInputPatternFirst(d) ==
  IF FirstPattern(d) # 0
  THEN Found(FirstIn(PatternInputs(d, FirstPattern(d))), "pattern-match",
             FirstPattern(d))
  ELSE IF StackInput(d) # 0
  THEN Found(StackInput(d), "layered-direct", 0)
  ELSE IF \E i \in BroadInputs(d) : d[i].child
  THEN Found(FirstIn({i \in BroadInputs(d) : d[i].child}), "layered-child", 0)
  ELSE IF \E i \in BroadInputs(d) : d[i].contains
  THEN Found(FirstIn({i \in BroadInputs(d) : d[i].contains}),
             "bbox-contains", 0)
  ELSE IF \E i \in BroadInputs(d) : d[i].dist <= NearEmailInput
  THEN Found(Closest(d, {i \in BroadInputs(d) : d[i].dist <= NearEmailInput}),
             "nearby-best", 0)
  ELSE NotFound

LocateEmailInput(d) ==
  IF StackInput(d) # 0
  THEN Found(StackInput(d), "layered-direct", 0)
  ELSE IF \E i \in BroadInputs(d) : d[i].child
  THEN Found(FirstIn({i \in BroadInputs(d) : d[i].child}), "layered-child", 0)
  ELSE IF \E i \in BroadInputs(d) : d[i].contains
  THEN Found(FirstIn({i \in BroadInputs(d) : d[i].contains}),
             "bbox-contains", 0)
  ELSE IF \E i \in BroadInputs(d) : d[i].dist <= NearEmailInput
  THEN Found(Closest(d, {i \in BroadInputs(d) : d[i].dist <= NearEmailInput}),
             "nearby-best", 0)
  ELSE IF FirstPattern(d) # 0
  THEN Found(FirstIn(PatternInputs(d, FirstPattern(d))), "pattern-match",
             FirstPattern(d))
  ELSE NotFound

\* the script of typeEmailAtCoordinates that finds the element again and
\* focuses it; 0 when it finds none
RefocusEmailInput(d, located) ==
  IF located.method \in {"layered-direct", "bbox-contains"}
  THEN StackInput(d)
  ELSE IF located.method \in {"layered-child", "nearby-best"}
  THEN IF \E i \in BroadInputs(d) : d[i].contains
       THEN FirstIn({i \in BroadInputs(d) : d[i].contains})
       ELSE IF /\ BroadInputs(d) # {}
               /\ d[Closest(d, BroadInputs(d))].dist <= NearEmailInput
       THEN Closest(d, BroadInputs(d))
       ELSE 0
  ELSE IF located.method = "pattern-match" /\ located.pattern # 0
  THEN FirstIn(PatternInputs(d, located.pattern))
  ELSE 0

\* the locator script of typeAtCoordinates: the element at the point, the
\* first input inside it, the first input within 50 px
LocateInput(d) ==
  IF \E i \in 1..Len(d) : d[i].top
  THEN Found(CHOOSE i \in 1..Len(d) : d[i].top, "direct", 0)
  ELSE IF \E i \in 1..Len(d) : d[i].child
  THEN Found(FirstIn({i \in 1..Len(d) : d[i].child}), "child", 0)
  ELSE IF \E i \in 1..Len(d) : d[i].dist <= NearInput
  THEN Found(FirstIn({i \in 1..Len(d) : d[i].dist <= NearInput}), "nearby", 0)
  ELSE NotFound

\* the script of typeAtCoordinates that finds the element again and focuses
\* it; 0 when it finds none
RefocusInput(d, located) ==
  IF located.method = "direct"
  THEN FirstIn({i \in 1..Len(d) : d[i].top})
  ELSE FirstIn({i \in 1..Len(d) : d[i].dist <= NearInput})

\* the focus validation of both functions on document.activeElement
\* (a = 0: the active element is no input or textarea)
FocusValidIgnoringReadOnly(d, a) ==
  /\ a # 0
  /\ d[a].visible /\ d[a].inView
  /\ ~d[a].disabled

FocusValid(d, a) ==
  /\ a # 0
  /\ d[a].visible /\ d[a].inView
  /\ ~d[a].disabled /\ ~d[a].readOnly

\* [...].filter(Boolean) of a list of two-valued entries
FilterBoolean(entries) ==
  SelectSeq(entries, LAMBDA entry : entry # "")

\* the conditions named in the message of typeAtCoordinates' validation
\* error (a = 0: the active element is the body of the page)
FieldIssues(d, a) ==
  FilterBoolean(
    << IF a = 0 THEN "not input field" ELSE "",
       IF a # 0 /\ ~(d[a].visible /\ d[a].inView) THEN "not visible" ELSE "",
       IF a # 0 /\ d[a].disabled THEN "disabled" ELSE "",
       IF a # 0 /\ d[a].readOnly THEN "readonly" ELSE "" >>)

\* the clearing methods of _clearEmailField, in their order
ClearMethods == <<"triple-click", "select-all", "home-shift-end", "backspace">>

\* what the focused field may hold when its value is read
FieldValues == {"", " ", "a@b.c"}

\* !fieldValue || fieldValue.trim() === ''
IsClearedNever(v) == FALSE

IsCleared(v) == v = "" \/ v = " "

\* the point typed at in the model: (-5, 300.5), left of the safe zone
InitType ==
  /\ cx = -10 /\ cy = 601 /\ cbox = NoBox
  /\ cwin = [width |-> 1280, height |-> 720]
  /\ cvp = [width |-> 1280, height |-> 720, scrollX |-> 0, scrollY |-> 0]
  /\ cprobe \in {"ok", "window_fails"}
  /\ pointer = NoPointer /\ validated = NoValidation
  /\ tpc = "idle" /\ tOp = "none" /\ dom \in Doms /\ tAttempt = 0
  /\ tLocated = NoLocated /\ tFocusTarget = 0 /\ tActive = 0 /\ tClicks = 0
  /\ tClearMethod = 0 /\ tValue = "unread" /\ tOutcome = NoResult
  /\ LinearIdle /\ IterIdle /\ SessIdle /\ GuideIdle /\ LogIdle

\* both functions up to the locator script: getViewportInfo (which may
\* throw, before the try block) and _validateCoordinatesWithViewport
TypeStart(op) ==
  /\ tpc = "idle"
  /\ tOp' = op
  /\ IF cprobe = "window_fails"
     THEN /\ tpc' = "rejected"
          /\ tOutcome' = [kind |-> "rejected", error |-> "viewport_failed"]
          /\ UNCHANGED <<validated, tAttempt>>
     ELSE /\ validated' = validateCoordinatesWithViewport(
                            cx, cy, getViewportInfo(cwin, cvp, cprobe), cbox)
          /\ tAttempt' = 1
          /\ tpc' = "await_locate"
          /\ UNCHANGED tOutcome
  /\ UNCHANGED <<cx, cy, cbox, cwin, cvp, cprobe, pointer, dom, tLocated,
                 tFocusTarget, tActive, tClicks, tClearMethod, tValue>>

\* an error inside the try block.  typeEmailAtCoordinates catches it per
\* attempt and retries until attempt 3; then, and in typeAtCoordinates at
\* once, the outer catch block rethrows it.
AttemptFailedRetryingOnce(err) ==
  IF tOp = "typeEmail" /\ tAttempt < FocusAttempts + 1
  THEN /\ tAttempt' = tAttempt + 1
       /\ tpc' = "await_locate"
       /\ UNCHANGED tOutcome
  ELSE /\ tpc' = "rejected"
       /\ tOutcome' = [kind |-> "rejected", error |-> err]
       /\ UNCHANGED tAttempt

AttemptFailed(err) ==
  IF tOp = "typeEmail" /\ tAttempt < FocusAttempts
  THEN /\ tAttempt' = tAttempt + 1
       /\ tpc' = "await_locate"
       /\ UNCHANGED tOutcome
  ELSE /\ tpc' = "rejected"
       /\ tOutcome' = [kind |-> "rejected", error |-> err]
       /\ UNCHANGED tAttempt

\* the validation of the focused element fails: typeEmailAtCoordinates
\* retries like after an error and gives up after attempt 3;
\* typeAtCoordinates throws an error whose message lists the issues
InvalidField ==
  IF tOp = "typeEmail"
  THEN AttemptFailed("invalid_field")
  ELSE /\ tpc' = "rejected"
       /\ tOutcome' = [kind |-> "rejected", error |-> "invalid_field",
                       issues |-> FieldIssues(dom, tActive)]
       /\ UNCHANGED tAttempt

\* the locator script answers or fails; on a miss the fallback click at the
\* validated coordinates is dispatched
LocateDone ==
  /\ tpc = "await_locate"
  /\ \/ /\ AttemptFailed("script_failed")
        /\ UNCHANGED <<tLocated, pointer, tClicks>>
     \/ LET r == IF tOp = "typeEmail" THEN LocateEmailInput(dom)
                 ELSE LocateInput(dom)
        IN /\ tLocated' = r
           /\ IF r.found
              THEN /\ tpc' = "await_focus"
                   /\ UNCHANGED <<pointer, tClicks>>
              ELSE /\ tpc' = "await_click"
                   /\ pointer' = [op |-> tOp, dispatched |-> TRUE,
                                  x |-> validated.x, y |-> validated.y,
                                  nan |-> validated.nan,
                                  safeZone |-> validated.safeZone]
                   /\ tClicks' = tClicks + 1
           /\ UNCHANGED <<tAttempt, tOutcome>>
  /\ UNCHANGED <<cx, cy, cbox, cwin, cvp, cprobe, validated, tOp, dom,
                 tFocusTarget, tActive, tClearMethod, tValue>>

\* the focus script answers or fails; it focuses the element it finds
FocusDone ==
  /\ tpc = "await_focus"
  /\ \/ /\ AttemptFailed("script_failed")
        /\ UNCHANGED <<tFocusTarget, tActive>>
     \/ LET e == IF tOp = "typeEmail" THEN RefocusEmailInput(dom, tLocated)
                 ELSE RefocusInput(dom, tLocated)
        IN /\ tFocusTarget' = e
           /\ tActive' = IF e # 0 THEN e ELSE tActive
           /\ tpc' = "await_focus_check"
           /\ UNCHANGED <<tAttempt, tOutcome>>
  /\ UNCHANGED <<coordVars, tOp, dom, tLocated, tClicks, tClearMethod,
                 tValue>>

\* the fallback click is performed or fails; what it focuses is the page's
ClickDone ==
  /\ tpc = "await_click"
  /\ \/ /\ AttemptFailed("click_failed")
        /\ UNCHANGED tActive
     \/ /\ \E a \in 0..Len(dom) : tActive' = a
        /\ tpc' = "await_focus_check"
        /\ UNCHANGED <<tAttempt, tOutcome>>
  /\ UNCHANGED <<coordVars, tOp, dom, tLocated, tFocusTarget, tClicks,
                 tClearMethod, tValue>>

\* the focus validation answers or fails.  A valid field ends the attempts:
\* the field is cleared (unless options.clear is false) and typed into.
FocusCheckDone ==
  /\ tpc = "await_focus_check"
  /\ \/ /\ AttemptFailed("script_failed")
        /\ UNCHANGED tClearMethod
     \/ IF FocusValid(dom, tActive)
        THEN /\ \E clear \in BOOLEAN :
                  IF clear
                  THEN tpc' = "await_clear" /\ tClearMethod' = 1
                  ELSE tpc' = "await_type" /\ UNCHANGED tClearMethod
             /\ UNCHANGED <<tAttempt, tOutcome>>
        ELSE /\ InvalidField
             /\ UNCHANGED tClearMethod
  /\ UNCHANGED <<coordVars, tOp, dom, tLocated, tFocusTarget, tActive,
                 tClicks, tValue>>

\* _clearEmailField: the loop goes on to the next method, or ends
NextClearMethod ==
  IF tClearMethod < Len(ClearMethods)
  THEN tpc' = "await_clear" /\ tClearMethod' = tClearMethod + 1
  ELSE tpc' = "await_type" /\ UNCHANGED tClearMethod

\* a clearing method of _clearEmailField ends: it threw (caught and logged)
\* or the value of the field is read next
ClearMethodDone ==
  /\ tpc = "await_clear" /\ tOp = "typeEmail"
  /\ \/ NextClearMethod
     \/ tpc' = "await_clear_check" /\ UNCHANGED tClearMethod
  /\ UNCHANGED <<coordVars, tOp, dom, tAttempt, tLocated, tFocusTarget,
                 tActive, tClicks, tValue, tOutcome>>

\* the value of the field is read, or the read fails (caught and logged)
ClearCheckDone ==
  /\ tpc = "await_clear_check"
  /\ \/ NextClearMethod /\ UNCHANGED tValue
     \/ \E v \in FieldValues :
          /\ tValue' = v
          /\ IF IsCleared(v)
             THEN tpc' = "await_type" /\ UNCHANGED tClearMethod
             ELSE NextClearMethod
  /\ UNCHANGED <<coordVars, tOp, dom, tAttempt, tLocated, tFocusTarget,
                 tActive, tClicks, tOutcome>>

\* the clearing of typeAtCoordinates: select-all and Delete, and repeated
\* Backspace when that throws; an error of the Backspace keys is not caught
ClearDone ==
  /\ tpc = "await_clear" /\ tOp = "type"
  /\ \/ tpc' = "await_type" /\ UNCHANGED <<tClearMethod, tOutcome>>
     \/ /\ tClearMethod = 1
        /\ tpc' = "await_clear" /\ tClearMethod' = 2
        /\ UNCHANGED tOutcome
     \/ /\ tClearMethod = 2
        /\ tpc' = "rejected"
        /\ tOutcome' = [kind |-> "rejected", error |-> "keys_failed"]
        /\ UNCHANGED tClearMethod
  /\ UNCHANGED <<coordVars, tOp, dom, tAttempt, tLocated, tFocusTarget,
                 tActive, tClicks, tValue>>

\* the text is typed and the function resolves, or a driver call outside
\* the per-character try block throws
TypeDone ==
  /\ tpc = "await_type"
  /\ \/ tpc' = "resolved" /\ tOutcome' = [kind |-> "resolved"]
     \/ /\ tpc' = "rejected"
        /\ tOutcome' = [kind |-> "rejected", error |-> "driver_failed"]
  /\ UNCHANGED <<coordVars, tOp, dom, tAttempt, tLocated, tFocusTarget,
                 tActive, tClicks, tClearMethod, tValue>>

NextType ==
  \/ TypeStart("type") /\ UNCHANGED <<linearVars, iterVars, sessVars, guideVars, logVars>>
  \/ TypeStart("typeEmail") /\ UNCHANGED <<linearVars, iterVars, sessVars, guideVars, logVars>>
  \/ LocateDone /\ UNCHANGED <<linearVars, iterVars, sessVars, guideVars, logVars>>
  \/ FocusDone /\ UNCHANGED <<linearVars, iterVars, sessVars, guideVars, logVars>>
  \/ ClickDone /\ UNCHANGED <<linearVars, iterVars, sessVars, guideVars, logVars>>
  \/ FocusCheckDone /\ UNCHANGED <<linearVars, iterVars, sessVars, guideVars, logVars>>
  \/ ClearMethodDone /\ UNCHANGED <<linearVars, iterVars, sessVars, guideVars, logVars>>
  \/ ClearCheckDone /\ UNCHANGED <<linearVars, iterVars, sessVars, guideVars, logVars>>
  \/ ClearDone /\ UNCHANGED <<linearVars, iterVars, sessVars, guideVars, logVars>>
  \/ TypeDone /\ UNCHANGED <<linearVars, iterVars, sessVars, guideVars, logVars>>

SpecType == InitType /\ [][NextType]_vars

(***************************************************************************)
(*                              Properties                                 *)
(***************************************************************************)

TerminalStatuses == {"completed", "stopped", "max_steps_reached", "error"}

\* C1: executeIterativeTest always ends by returning a result; the status
\* of the result is one of completed, stopped, max_steps_reached, error and
\* the session record carries the same status when the call has returned.
C1_ReturnStatus ==
  /\ pc \in {"idle", "await_initial_screenshot", "await_screen_size",
             "await_start_session", "await_execute", "await_feedback",
             "await_delay", "returned"}
  /\ pc = "returned" =>
       /\ result # NoResult
       /\ result.status \in TerminalStatuses
       /\ currentTest.status = result.status
  /\ pc # "returned" => result = NoResult

\* a session that recorded two steps and then failed in its
\* second feedback round
C1_Witness ==
  /\ pc = "returned"
  /\ result.status = "error"
  /\ Len(result.steps) = 2
  /\ Len(testResults) = 1

\* the maxSteps the caller configured: the option, or the documented
\* default when no option is given
ConfiguredMaxSteps ==
  IF options.given THEN options.maxSteps ELSE DefaultMaxSteps

\* C2: for every maxSteps passed in options, the number of
\* executeActionWithLogging calls and the number of recorded steps never
\* exceed that maxSteps.
C2_AtMostMaxSteps ==
  options # NoOptions =>
    /\ execCalls <= ConfiguredMaxSteps
    /\ Len(currentTest.steps) <= ConfiguredMaxSteps

\* C3: every step record of _executeVisualActionStep has attempts in 1..3,
\* and one step issues at most 3 guidance requests and executes at most 3
\* actions.
C3_AttemptsBounded ==
  lTest # NoTest =>
    /\ \A i \in 1..Len(lTest.steps) : lTest.steps[i].attempts \in 1..3
    /\ lGuidanceReqs <= 3
    /\ lActionExecs <= 3

\* a step that succeeded on its third attempt after three guidance
\* requests and three executed actions
C3_Witness ==
  /\ lTest # NoTest
  /\ lGuidanceReqs = 3
  /\ lActionExecs = 3
  /\ \E i \in 1..Len(lTest.steps) :
       lTest.steps[i].attempts = 3 /\ lTest.steps[i].success

\* C4: without a bounding box, _validateCoordinatesWithViewport returns a
\* point inside the safe zone of the viewport info, for every point and
\* every viewport info getViewportInfo produces.
C4_ValidatedInSafeZone ==
  (validated # NoValidation /\ cbox = NoBox) =>
    InSafeZone(validated, validated.safeZone)

\* C5: every pointer action dispatched by clickAtCoordinates,
\* doubleClickAtCoordinates and the click fallbacks of typeAtCoordinates
\* and typeEmailAtCoordinates targets a point inside the safe zone.
C5_PointerInSafeZone ==
  (pointer # NoPointer /\ pointer.dispatched) =>
    InSafeZone(pointer, pointer.safeZone)

\* the sanity conditions of a processed bounding box, as the claim lists them
FailsSanity(bb, viewport) ==
  \/ bb.left < 0 \/ bb.top < 0
  \/ bb.right > viewport.width \/ bb.bottom > viewport.height
  \/ bb.right <= bb.left \/ bb.bottom <= bb.top
  \/ bb.width < 10 \/ bb.height < 10

CurrentViewportInfo == getViewportInfo(cwin, cvp, cprobe)

\* C6: a bounding box that fails the sanity checks leaves x, y, wasAdjusted
\* and adjustmentReason of _validateCoordinatesWithViewport as they are
\* for the same call without a bounding box.
C6_InvalidBoxIgnored ==
  ( /\ validated # NoValidation
    /\ cbox # NoBox
    /\ FailsSanity(ProcessBbox(cbox), CurrentViewportInfo.viewport) ) =>
      validated =
        validateCoordinatesWithViewport(cx, cy, CurrentViewportInfo, NoBox)

\* a 5 px wide box on a full-size viewport, the point in range but outside
\* the box: a box that passed the checks would have moved the point
C6_Witness ==
  /\ validated # NoValidation
  /\ cbox = Box(100, 100, 105, 140, 0, 0)
  /\ cvp.width = 1280
  /\ cprobe = "ok"
  /\ cx = 1280 /\ cy = 601
  /\ ~validated.wasAdjusted

\* C7: in linear mode a step that failed all its attempts throws the error
\* of the last attempt; no later step is attempted, no final verification
\* is requested, and executeVisualTest rejects with that error after
\* recording the test as failed.
C7_FailedStepHalts ==
  (lTest # NoTest /\ \E i \in 1..Len(lTest.steps) : ~lTest.steps[i].success) =>
    /\ lpc = "rejected"
    /\ ~lTest.steps[Len(lTest.steps)].success
    /\ lStep = Len(lTest.steps)
    /\ lGuidanceReqs <= maxRetries
    /\ lVerifications = 0
    /\ lLastError.attempt = maxRetries
    /\ lOutcome = [kind |-> "rejected", error |-> lLastError]
    /\ lTest.result = [set |-> TRUE, success |-> FALSE, error |-> lLastError]
    /\ lTestResults = <<FALSE>>

\* the first of two steps failed its three attempts
C7_Witness ==
  /\ lpc = "rejected"
  /\ lNumSteps = 2
  /\ lTest.steps = <<[stepNumber |-> 1, success |-> FALSE, attempts |-> 3]>>
  /\ lLastError.kind = "action_failed"

\* C8: when a call inside the try block of executeIterativeTest throws, the
\* call returns status error with the message of the error, and the
\* returned steps and screenshots are all those recorded before.
C8_ErrorKeepsHistory ==
  thrown # None =>
    /\ pc = "returned"
    /\ ~result.success
    /\ result.status = "error"
    /\ result.error = thrown
    /\ result.steps = currentTest.steps
    /\ Len(result.steps) = Len(actionLogs)
    /\ result.screenshots = currentTest.screenshots
    /\ Len(result.screenshots) >= Len(result.steps)

\* the feedback request after the third step failed
C8_Witness ==
  /\ thrown = "Iterative feedback failed"
  /\ Len(result.steps) = 3
  /\ Len(result.screenshots) = 4

\* C9: feedback with task_completed after step k ends the session with
\* success, status completed and totalSteps = k, and no further action is
\* executed, whatever should_continue and next_action are.
C9_CompletedWins ==
  (feedback # NoFeedback /\ feedback.task_completed) =>
    /\ pc = "returned"
    /\ result.success
    /\ result.status = "completed"
    /\ result.totalSteps = Num(feedbackStep)
    /\ feedbackStep <= maxSteps
    /\ execCalls = feedbackStep
    /\ Len(result.steps) = feedbackStep

\* task_completed arrives on step 3 of a 10-step budget, together with
\* should_continue = false and a next action
C9_Witness ==
  /\ feedback # NoFeedback
  /\ feedback.task_completed
  /\ ~feedback.should_continue
  /\ feedback.next_action # NoAction
  /\ feedbackStep = 3
  /\ maxSteps = 10

\* C10: feedback with should_continue, without task_completed and without
\* a next action breaks the loop at once, and the session does not end as
\* max_steps_reached.
C10_NoNextActionIsNotMaxSteps ==
  ( /\ feedback # NoFeedback
    /\ ~feedback.task_completed
    /\ feedback.should_continue
    /\ feedback.next_action = NoAction ) =>
      /\ pc = "returned"
      /\ execCalls = feedbackStep
      /\ result.status # "max_steps_reached"

\* C11: after stopIterativeTest has been called on a running session, the
\* loop observes the request at the next step boundary (the head of a loop
\* iteration): from then on no action is executed and no feedback round is
\* started.
C11_StopObservedAtBoundary ==
  [][ ( /\ currentTest # NoTest
        /\ currentTest.status = "stopped_by_user" ) =>
          /\ execCalls' = execCalls
          /\ pc' # "await_execute" ]_vars

\* a loop iteration is entered with its while condition true and the call
\* returns without executing the action: the timeout check fired
TimeoutAtLoopTop ==
  /\ pc \in {"await_start_session", "await_delay"}
  /\ currentAction' # NoAction
  /\ stepNumber' <= maxSteps
  /\ pc' = "returned"

\* C12: the session timeout is checked at the top of a loop iteration; when
\* it has elapsed there, no further action is executed and the session ends
\* like step-budget exhaustion: by leaving the loop with a status other
\* than error, not through the catch block.
C12_TimeoutIsTerminalStatus ==
  [][ TimeoutAtLoopTop =>
        /\ execCalls' = execCalls
        /\ thrown' = None
        /\ result'.status \in TerminalStatuses \ {"error"}
        /\ currentTest'.status = result'.status ]_vars

\* C13: when the guidance request of an attempt fails, no further guidance
\* request is issued for the step: the error propagates at once, the step is
\* recorded as failed and executeVisualTest rejects with that error.
C13_GuidanceFailureNotRetried ==
  lLastError.kind = "guidance_failed" =>
    /\ lpc = "rejected"
    /\ lGuidanceReqs = lLastError.attempt
    /\ lOutcome = [kind |-> "rejected", error |-> lLastError]

\* C14: two sessions run by two VisualTestExecutor instances share no
\* mutable state: every AI request of a session is logged with the logger
\* of the executor that runs the session, whatever the other executor does.
C14_SessionsIsolated ==
  \A i \in 1..Len(aiRequests) :
    aiRequests[i].logger = webLogger[aiRequests[i].session]

\* C18: when the window-size query or the in-page viewport query fails,
\* getViewportInfo does not throw: it returns the bare window size as the
\* viewport, a browser-chrome height of 50 and the safe zone
\* {10, 50, width - 10, height - 10}.
C18_FallbackNeverThrows ==
  (pointer # NoPointer /\ cprobe # "ok") =>
    /\ pointer.dispatched
    /\ validated # NoValidation
    /\ validated.safeZone = [minX |-> 10, minY |-> 50,
                             maxX |-> cwin.width - 10,
                             maxY |-> cwin.height - 10]
    /\ CurrentViewportInfo.viewport.width = cwin.width
    /\ CurrentViewportInfo.viewport.height = cwin.height
    /\ CurrentViewportInfo.browserChrome.height = 50

\* the point as it reaches the bounding-box block: snapped, converted from
\* screen-relative and clamped into the safe zone
BeforeBbox ==
  SafeZoneStage(ScreenStage(SnapStage(cx, cy), cx, cy, CurrentViewportInfo),
                CurrentViewportInfo)

\* a validated call in which the bounding box passed the sanity checks and
\* the point fell outside the inner rectangle of the box
RetargetCase ==
  /\ validated # NoValidation
  /\ cbox # NoBox
  /\ IsBboxValid(ProcessBbox(cbox), CurrentViewportInfo.viewport)
  /\ ~BeforeBbox.nan
  /\ \/ BeforeBbox.x < Px(ProcessBbox(cbox).left + 2)
     \/ BeforeBbox.x > Px(ProcessBbox(cbox).right - 2)
     \/ BeforeBbox.y < Px(ProcessBbox(cbox).top + 2)
     \/ BeforeBbox.y > Px(ProcessBbox(cbox).bottom - 2)

\* the retarget by element shape as the claim states it, fractions of a
\* pixel dropped
ShapeTarget(bb) ==
  IF bb.width > 200 /\ bb.height < 60
  THEN [x |-> bb.left + ((25 * bb.width) \div 100),
        y |-> bb.top + ((50 * bb.height) \div 100)]
  ELSE IF bb.width < 200 /\ bb.height < 60
  THEN [x |-> bb.left + ((50 * bb.width) \div 100),
        y |-> bb.top + ((50 * bb.height) \div 100)]
  ELSE [x |-> bb.left + ((40 * bb.width) \div 100),
        y |-> bb.top + ((40 * bb.height) \div 100)]

C20_SafeZoneFormula ==
  (validated # NoValidation /\ cprobe = "ok") =>
    validated.safeZone =
      [minX |-> 15,
       minY |-> Max(60, (cwin.height - cvp.height) + 15),
       maxX |-> cvp.width - 15,
       maxY |-> cvp.height - 15]

\* a 1280x720 viewport in a 1280x720 window: {15, 60, 1265, 705}
C20_Witness ==
  /\ validated # NoValidation
  /\ cprobe = "ok"
  /\ cwin = [width |-> 1280, height |-> 720]
  /\ cvp.width = 1280 /\ cvp.height = 720
  /\ validated.safeZone = [minX |-> 15, minY |-> 60, maxX |-> 1265,
                           maxY |-> 705]

\* the field value counts as empty: nothing, or white space only
ReadsEmpty(v) == v \in {"", " "}

\* C15: _clearEmailField tries its four methods in the order triple-click,
\* select-all, Home/Shift+End, Backspace, and stops at the first method
\* after which the focused field reads empty: no later method is attempted.
C15_ClearCascadeStops ==
  [][ tOp' = "typeEmail" =>
        /\ tClearMethod' # tClearMethod =>
             /\ tClearMethod' = tClearMethod + 1
             /\ tClearMethod' \in 1..Len(ClearMethods)
             /\ tpc' = "await_clear"
        /\ ReadsEmpty(tValue') =>
             /\ tpc' \notin {"await_clear", "await_clear_check"}
             /\ (ReadsEmpty(tValue) => tClearMethod' = tClearMethod) ]_vars

\* the field read empty after the second method (select-all + Delete) and
\* the email is being typed
C15_Witness ==
  /\ tOp = "typeEmail"
  /\ tpc = "await_type"
  /\ tClearMethod = 2
  /\ ClearMethods[tClearMethod] = "select-all"
  /\ tValue = ""

\* the candidates of the strategies of the email locator
DirectCandidates(d) ==
  {i \in 1..Len(d) : d[i].tag = "input" /\ d[i].atPoint /\ d[i].visible}
ChildCandidates(d) ==
  {i \in 1..Len(d) : d[i].tag = "input" /\ d[i].child /\ d[i].broad
                       /\ d[i].visible}
NearbyCandidates(d) ==
  {i \in 1..Len(d) : d[i].tag = "input" /\ d[i].broad /\ d[i].visible
                       /\ (d[i].contains \/ d[i].dist <= 100)}
PatternCandidates(d) ==
  {i \in 1..Len(d) : d[i].tag = "input" /\ d[i].patterns # {}
                       /\ d[i].visible /\ d[i].dist <= 100}

\* C16: the locator of typeEmailAtCoordinates tries direct/layered, child
\* search, nearby search and pattern match in this order and returns the
\* match of the first strategy that has one: a candidate of a later
\* strategy is never returned when an earlier strategy has a match.
C16_FirstStrategyWins ==
  (tOp = "typeEmail" /\ tLocated # NoLocated) =>
    IF DirectCandidates(dom) # {}
    THEN /\ tLocated.found /\ tLocated.method = "layered-direct"
         /\ tLocated.element \in DirectCandidates(dom)
    ELSE IF ChildCandidates(dom) # {}
    THEN /\ tLocated.found /\ tLocated.method = "layered-child"
         /\ tLocated.element \in ChildCandidates(dom)
    ELSE IF NearbyCandidates(dom) # {}
    THEN /\ tLocated.found
         /\ tLocated.method \in {"bbox-contains", "nearby-best"}
         /\ tLocated.element \in NearbyCandidates(dom)
    ELSE IF PatternCandidates(dom) # {}
    THEN /\ tLocated.found /\ tLocated.method = "pattern-match"
         /\ tLocated.element \in PatternCandidates(dom)
    ELSE ~tLocated.found

\* a page whose second input matches an email pattern 30 px away while the
\* first is a text input inside the container under the point: the child
\* search wins
C16_Witness ==
  /\ tOp = "typeEmail"
  /\ tLocated # NoLocated
  /\ Len(dom) = 2
  /\ tLocated.method = "layered-child" /\ tLocated.element = 1
  /\ 2 \in PatternCandidates(dom)
  /\ dom[2].dist < dom[1].dist

\* no strategy of the locator of the function called has a match
NoStrategyMatches ==
  IF tOp = "typeEmail"
  THEN /\ DirectCandidates(dom) = {} /\ ChildCandidates(dom) = {}
       /\ NearbyCandidates(dom) = {} /\ PatternCandidates(dom) = {}
  ELSE \A i \in 1..Len(dom) :
         ~dom[i].top /\ ~dom[i].child /\ dom[i].dist > 50

\* C17: when no locator strategy matches, the locator answers found = false
\* instead of raising; typeAtCoordinates and typeEmailAtCoordinates then
\* click at the validated coordinates and go on to the focus validation.
C17_MissFallsBackToClick ==
  [][ /\ ( /\ tpc = "await_locate"
           /\ tpc' \in {"await_focus", "await_click"}
           /\ NoStrategyMatches ) =>
             /\ tLocated'.found = FALSE
             /\ tpc' = "await_click"
             /\ tClicks' = tClicks + 1
             /\ pointer'.dispatched
             /\ pointer'.x = validated.x /\ pointer'.y = validated.y
      /\ ( /\ tpc = "await_click"
           /\ tClicks' = tClicks /\ tAttempt' = tAttempt
           /\ tpc' # "rejected" ) =>
             tpc' = "await_focus_check" ]_vars

\* typeAtCoordinates on a page without any input near the point: the click
\* went to the validated point (15, 301) and the focus validation is next
C17_Witness ==
  /\ tOp = "type"
  /\ NoStrategyMatches
  /\ tLocated = NotFound
  /\ tpc = "await_focus_check"
  /\ tClicks = 1
  /\ pointer.x = Px(15) /\ pointer.y = Px(301)

C22_StatusWrittenOnce ==
  [][(currentTest # NoTest /\ currentTest.status # "running")
       => currentTest'.status = currentTest.status]_vars

\* the post-action screenshot is detectably different from the pre-action
\* one: the lengths differ by more than 1% of the pre-action length
DetectablyDifferent(pre, post) ==
  \/ 100 * (post.length - pre.length) > pre.length
  \/ 100 * (pre.length - post.length) > pre.length

\* C23: on a non-final attempt of a step whose executed action is a click,
\* when the post-action screenshot is not detectably different from the
\* pre-action one, the step is not recorded as successful on that attempt and
\* the next attempt requests guidance with the post-action screenshot.
C23_UnchangedClickRetried ==
  [][(/\ lpc = "await_verify_screenshot"
      /\ lPerformed.action = "click"
      /\ lNewScreenshot' # NoScreenshot
      /\ ~DetectablyDifferent(lScreenshot, lNewScreenshot'))
       => /\ lTest'.steps = lTest.steps
          /\ lpc' = "await_guidance"
          /\ lAttempt' = lAttempt + 1
          /\ lScreenshot' = lNewScreenshot']_vars

\* an element-not-found error, as the retry loop recognises it: its message
\* contains 'could not find', like the error thrown for an unsuccessful
\* guidance
ElementNotFound(error) == error # NoError /\ error.notFound

\* the given attempt ended with an element-not-found error, and no later
\* attempt has thrown since
NotFoundAt(error, attempt) ==
  ElementNotFound(error) /\ error.attempt = attempt

\* C24: within one step a downward scroll is issued between attempts if and
\* only if attempt 2 failed with an element-not-found error: never after a
\* failure of attempt 1 or 3, at most once, and the attempt that follows the
\* scroll requests guidance with the screenshot taken after the scroll.
C24_ScrollIffSecondAttemptNotFound ==
  /\ [][lScrolls' = lScrolls + 1
          => /\ lScrolls = 0
             /\ lAttempt = 2
             /\ NotFoundAt(lLastError, 2)]_vars
  /\ [](lpc = "await_guidance" /\ lAttempt = 3
          => IF NotFoundAt(lLastError, 2)
             THEN lScrolls = 1 /\ lScreenshot.kind = "after_scroll"
             ELSE lScrolls = 0 /\ lScreenshot.kind # "after_scroll")

\* attempt 3 requests guidance after attempt 2 ended with "AI could not find
\* element" and the page was scrolled
C24_Witness ==
  /\ lpc = "await_guidance" /\ lAttempt = 3
  /\ lLastError.kind = "could_not_find" /\ lLastError.attempt = 2
  /\ lScrolls = 1
  /\ lScreenshot.kind = "after_scroll"

\* the guidance request of the attempt in progress resolves in this step
GuidanceResolves ==
  /\ lpc = "await_guidance"
  /\ ~(lLastError' # NoError /\ lLastError'.kind = "guidance_failed"
         /\ lLastError'.attempt = lAttempt)

QualifyingAlts(alts) ==
  {i \in 1..Len(alts) : alts[i] > AltConfidenceThreshold}

\* C25: when guidance comes back with success = false and one or more of its
\* alternative actions have a confidence above 0.7, the step executes the
\* qualifying alternative with the highest confidence, and when that
\* execution raises no error the step is recorded as successful on that
\* attempt.
C25_BestAlternativeExecuted ==
  /\ [][(/\ GuidanceResolves
         /\ ~lGuidance'.success
         /\ QualifyingAlts(lGuidance'.alternativeActions) # {})
          => /\ lpc' = "await_action"
             /\ lPerformed'.alt \in QualifyingAlts(lGuidance'.alternativeActions)
             /\ \A i \in QualifyingAlts(lGuidance'.alternativeActions) :
                  lGuidance'.alternativeActions[i] <= lPerformed'.confidence]_vars
  /\ [][(/\ lpc = "await_action" /\ lPerformed.alt # 0
         /\ lLastError' = lLastError /\ lpc' # "rejected")
          => lTest'.steps = Append(lTest.steps,
                                   [stepNumber |-> lStep, success |-> TRUE,
                                    attempts |-> lAttempt])]_vars

\* clearing keys or characters of the text have been sent to the page
KeysSent ==
  \/ tClearMethod > 0
  \/ tpc \in {"await_clear", "await_clear_check", "await_type", "resolved"}
  \/ tpc = "rejected" /\ tOutcome.error \in {"keys_failed", "driver_failed"}

\* the focused element is an input or textarea that is visible, not
\* disabled and not read-only
ActiveIsValidField ==
  /\ tActive \in 1..Len(dom)
  /\ dom[tActive].tag \in {"input", "textarea"}
  /\ dom[tActive].visible /\ dom[tActive].inView
  /\ ~dom[tActive].disabled
  /\ ~dom[tActive].readOnly

\* the steps of a focus attempt: locating, focusing or clicking, validating
FocusPhase == {"await_locate", "await_focus", "await_click",
               "await_focus_check"}

\* C26: typeEmailAtCoordinates makes at most 3 focus attempts; it sends
\* clearing keys or characters only after an attempt that validated the
\* focused element; when the third attempt fails validation or throws, it
\* raises an error and has sent no key.
C26_ThreeFocusAttempts ==
  /\ [](tOp = "typeEmail" => tAttempt <= 3)
  /\ [](tOp = "typeEmail" /\ KeysSent => ActiveIsValidField)
  /\ [][(/\ tOp = "typeEmail" /\ tAttempt = 3 /\ tpc \in FocusPhase
         /\ tpc' \notin FocusPhase /\ ~ActiveIsValidField')
          => /\ tpc' = "rejected"
             /\ tOutcome'.kind = "rejected"
             /\ ~KeysSent']_vars

\* the third attempt focused a disabled field and the function threw
C26_Witness ==
  /\ tOp = "typeEmail" /\ tAttempt = 3
  /\ tpc = "rejected" /\ tOutcome.error = "invalid_field"
  /\ tActive # 0 /\ dom[tActive].disabled
  /\ tClearMethod = 0

\* the conditions of the validation that the focused element fails
FailedConditions ==
  (IF tActive = 0 THEN {"not input field"} ELSE {})
    \cup (IF tActive # 0 /\ ~(dom[tActive].visible /\ dom[tActive].inView)
          THEN {"not visible"} ELSE {})
    \cup (IF tActive # 0 /\ dom[tActive].disabled THEN {"disabled"} ELSE {})
    \cup (IF tActive # 0 /\ dom[tActive].readOnly THEN {"readonly"} ELSE {})

\* C27: typeAtCoordinates sends no clearing key and no character unless the
\* focused element passed validation; when validation fails it throws an
\* error that names every failed condition, and no key has reached the
\* field.
C27_TypeNeedsValidField ==
  /\ [](tOp = "type" /\ KeysSent => ActiveIsValidField)
  /\ [][(/\ tOp = "type" /\ tpc = "await_focus_check"
         /\ tpc' # "await_focus_check" /\ ~ActiveIsValidField
         /\ tOutcome'.error # "script_failed")
          => /\ tpc' = "rejected"
             /\ tOutcome'.error = "invalid_field"
             /\ {tOutcome'.issues[i] : i \in 1..Len(tOutcome'.issues)}
                  = FailedConditions
             /\ FailedConditions # {}
             /\ ~KeysSent']_vars

\* typeAtCoordinates threw for a field that is hidden, disabled and
\* read-only, and its error names the three conditions
C27_Witness ==
  /\ tOp = "type" /\ tpc = "rejected"
  /\ tOutcome.error = "invalid_field"
  /\ tOutcome.issues = <<"not visible", "disabled", "readonly">>
  /\ tClearMethod = 0

\* C28: for every action, executeActionWithLogging never throws: the call
\* resolves with an actionResult (success = false when the action type is
\* unsupported or the driver fails) and has appended exactly one entry to
\* the action log.
C28_ExecuteNeverThrows ==
  [][(pc = "await_execute" /\ pc' # "await_execute")
       => /\ pc' = "await_feedback"
          /\ thrown' = thrown
          /\ executionResult'.actionResult.action_type
               = currentAction.action_type
          /\ Len(actionLogs') = Len(actionLogs) + 1]_vars

\* the action types of an ActionRequest
ActionRequestTypes ==
  {"click", "double-click", "type", "scroll", "wait", "navigate"}

\* the failures that come from the driver calls of an action, or from an
\* action that lacks the input text its type needs
DriverFailures ==
  {"driver call failed", "screenshot failed",
   "No input value provided for type action",
   "No URL provided for navigate action"}

\* C29: for each action type of an ActionRequest, executeActionWithLogging
\* dispatches the action to the driver and reports success = true whenever
\* the driver calls succeed: a scroll and a double-click from the backend are
\* executed, and an action is reported as failed only for a driver failure.
C29_EveryActionTypeDispatched ==
  (/\ pc = "await_feedback"
   /\ executionResult.actionResult.action_type \in ActionRequestTypes
   /\ ~executionResult.actionResult.success)
    => executionResult.actionResult.error_message \in DriverFailures

\* C30: when a bounding box passes the sanity checks, the point returned by
\* _validateCoordinatesWithViewport lies within the inner rectangle
\* [left + 2, right - 2] x [top + 2, bottom - 2] of that box.
C30_ResultInsideInnerRectangle ==
  ( /\ validated # NoValidation
    /\ cbox # NoBox
    /\ IsBboxValid(ProcessBbox(cbox), CurrentViewportInfo.viewport) ) =>
      /\ ~validated.nan
      /\ Px(ProcessBbox(cbox).left + 2) <= validated.x
      /\ validated.x <= Px(ProcessBbox(cbox).right - 2)
      /\ Px(ProcessBbox(cbox).top + 2) <= validated.y
      /\ validated.y <= Px(ProcessBbox(cbox).bottom - 2)

\* C31: when only the pattern-match strategy of the email locator has
\* candidates and several visible candidates lie within 100 px of the point,
\* the locator returns the candidate closest to the point.
C31_PatternMatchClosest ==
  (/\ tOp = "typeEmail" /\ tLocated # NoLocated
   /\ DirectCandidates(dom) = {} /\ ChildCandidates(dom) = {}
   /\ NearbyCandidates(dom) = {}
   /\ Cardinality(PatternCandidates(dom)) >= 2)
    => /\ tLocated.found
       /\ tLocated.element \in PatternCandidates(dom)
       /\ \A j \in PatternCandidates(dom) :
            dom[tLocated.element].dist <= dom[j].dist

\* ---------------------------------------------------------------------
\* getVisualActionGuidance of the AI client: coordinate validation,
\* fallback coordinates and the confidence of the enhanced res.
\* Confidences are in percent (0.5 is 50), coordinates in whole pixels.
\* ---------------------------------------------------------------------
SafeMinX == 15
SafeMinY == 60
SafeEdge == 15
MaxFallbacks == 3
MinFallbackConfidence == 50
FallbackPenalty == 10

NoScreenSize == [absent |-> TRUE]
NoCoordinates == [absent |-> TRUE]
GuidanceScreenSizes == {NoScreenSize, [width |-> 1280, height |-> 720]}

\* the call: does the instruction mention "email", is a screen size passed
GuidanceRequests == [screenSize : GuidanceScreenSizes, email : BOOLEAN]

BackendCoordinates ==
  {NoCoordinates, [x |-> 640, y |-> 300], [x |-> 5, y |-> 300],
   [x |-> 640, y |-> 30], [x |-> 2000, y |-> 300], [x |-> 1270, y |-> 710]}

BackendBoxes ==
  {NoBox, [left |-> 600, top |-> 280, width |-> 85, height |-> 45],
   [left |-> 0, top |-> 0, width |-> 20, height |-> 20]}

BackendConfidences == {10 * i : i \in 0..10}

BackendResults ==
  [coordinates : BackendCoordinates, bounding_box : BackendBoxes,
   confidence : BackendConfidences]

validateAICoordinates(res, screenSize) ==
  IF res.coordinates = NoCoordinates \/ screenSize = NoScreenSize
  THEN FALSE
  ELSE LET x == res.coordinates.x
           y == res.coordinates.y
       IN  /\ ~(x < SafeMinX) /\ ~(y < SafeMinY)
           /\ ~(x > screenSize.width - SafeEdge)
           /\ ~(y > screenSize.height - SafeEdge)
           /\ ~(2 * x > 3 * screenSize.width)
           /\ ~(2 * y > 3 * screenSize.height)
           /\ ~(x < 0 \/ y < 0)

BoxFallbacks(bbox, email) ==
  LET center == [x |-> (2 * bbox.left + bbox.width) \div 2,
                 y |-> (2 * bbox.top + bbox.height) \div 2]
      quarter == [x |-> (4 * bbox.left + bbox.width) \div 4,
                  y |-> (2 * bbox.top + bbox.height) \div 2]
      offset == [x |-> (10 * bbox.left + 4 * bbox.width) \div 10,
                 y |-> (10 * bbox.top + 6 * bbox.height) \div 10]
  IN  <<center>> \o (IF email THEN <<quarter>> ELSE <<>>) \o <<offset>>

commonEmailPositions(screenSize) ==
  << [x |-> (5 * screenSize.width) \div 10, y |-> (4 * screenSize.height) \div 10],
     [x |-> (3 * screenSize.width) \div 10, y |-> (35 * screenSize.height) \div 100],
     [x |-> (5 * screenSize.width) \div 10, y |-> (3 * screenSize.height) \div 10] >>

generateFallbackCoordinates(res, screenSize, email) ==
  IF screenSize = NoScreenSize THEN <<>>
  ELSE LET fallbacks ==
             (IF res.bounding_box # NoBox
              THEN BoxFallbacks(res.bounding_box, email) ELSE <<>>)
             \o (IF email THEN commonEmailPositions(screenSize) ELSE <<>>)
           WithinSafeBounds(coord) ==
             /\ coord.x >= SafeMinX /\ coord.x <= screenSize.width - SafeEdge
             /\ coord.y >= SafeMinY /\ coord.y <= screenSize.height - SafeEdge
           safe == SelectSeq(fallbacks, WithinSafeBounds)
       IN  SubSeq(safe, 1, Min(MaxFallbacks, Len(safe)))

EnhancedResult(res, request) ==
  LET isValid == validateAICoordinates(res, request.screenSize)
      fallbackCoordinates ==
        generateFallbackCoordinates(res, request.screenSize, request.email)
      useFallback == ~isValid /\ Len(fallbackCoordinates) > 0
  IN  [ coordinates |-> IF useFallback THEN fallbackCoordinates[1]
                        ELSE res.coordinates,
        confidence |-> IF useFallback
                       THEN Max(MinFallbackConfidence,
                                res.confidence - FallbackPenalty)
                       ELSE res.confidence,
        isValid |-> isValid,
        fallbackCoordinates |-> fallbackCoordinates,
        usingFallback |-> useFallback,
        thrown |-> FALSE ]

GuidanceFailed == [thrown |-> TRUE, usingFallback |-> FALSE]

getVisualActionGuidance ==
  /\ gpc = "idle"
  /\ \E request \in GuidanceRequests : gRequest' = request
  /\ gpc' = "await_post"
  /\ UNCHANGED <<gBackend, gEnhanced>>

PostResolved ==
  /\ gpc = "await_post"
  /\ \E res \in BackendResults :
       /\ gBackend' = res
       /\ gEnhanced' = EnhancedResult(res, gRequest)
  /\ gpc' = "returned"
  /\ UNCHANGED gRequest

PostRejected ==
  /\ gpc = "await_post"
  /\ gEnhanced' = GuidanceFailed
  /\ gpc' = "thrown"
  /\ UNCHANGED <<gRequest, gBackend>>

NextGuidance ==
  \/ getVisualActionGuidance /\ UNCHANGED <<coordVars, linearVars, iterVars, sessVars, typeVars, logVars>>
  \/ PostResolved /\ UNCHANGED <<coordVars, linearVars, iterVars, sessVars, typeVars, logVars>>
  \/ PostRejected /\ UNCHANGED <<coordVars, linearVars, iterVars, sessVars, typeVars, logVars>>

SpecGuidance == Init /\ [][NextGuidance]_vars

\* C32: when the enhanced res uses a fallback coordinate, its
\* confidence is never higher than the confidence the backend reported.
C32_FallbackConfidenceReduced ==
  (gpc = "returned" /\ gEnhanced.usingFallback)
    => gEnhanced.confidence <= gBackend.confidence

\* C33: every returned result that reports totalSteps reports the number
\* of step records in its steps list.
C33_TotalStepsCountsSteps ==
  (pc = "returned" /\ result # NoResult /\ result.totalSteps # Undefined)
    => result.totalSteps = Num(Len(result.steps))

\* C34: once the invocation of _executeVisualActionStep for step lStep has
\* returned or thrown, the test holds exactly one step record for each
\* invocation made so far.
StepInvocationOver ==
  lpc \in {"await_step_screenshot", "await_verification", "resolved",
           "rejected"}

C34_OneRecordPerInvocation ==
  StepInvocationOver => Len(lTest.steps) = lStep

\* the action of the current step failed and a screenshot was still taken;
\* the feedback request carrying executionResult.actionResult is in flight
FailedWithScreenshot ==
  /\ pc = "await_feedback" /\ executionResult # NoExecution
  /\ ~executionResult.actionResult.success
  /\ executionResult.screenshotAfter

\* the feedback of the current step arrives in this transition
FeedbackArrives == feedbackStep # stepNumber /\ feedbackStep' = stepNumber

\* C35: a failed action with a post-action screenshot does not end the
\* session by itself: its step is recorded with success = false, feedback is
\* awaited with no result produced yet, and what happens next follows the
\* feedback alone (completed, stopped, no next action, or the next step).
C35_FailedActionLeftToFeedback ==
  /\ [](FailedWithScreenshot =>
          /\ result = NoResult
          /\ Len(currentTest.steps) >= 1
          /\ currentTest.steps[Len(currentTest.steps)]
               = [stepNumber |-> stepNumber, success |-> FALSE])
  /\ [][(FailedWithScreenshot /\ FeedbackArrives) =>
          /\ feedback'.task_completed =>
               (pc' = "returned" /\ result'.status = "completed")
          /\ (~feedback'.task_completed /\ ~feedback'.should_continue) =>
               (pc' = "returned" /\ result'.status = "stopped")
          /\ (/\ ~feedback'.task_completed /\ feedback'.should_continue
              /\ feedback'.next_action = NoAction) =>
               (pc' = "returned" /\ result'.status = "max_steps_reached")
          /\ (/\ ~feedback'.task_completed /\ feedback'.should_continue
              /\ feedback'.next_action # NoAction) =>
               (/\ pc' = "await_delay" /\ result' = NoResult
                /\ currentTest' = currentTest
                /\ currentAction' = feedback'.next_action)]_vars

\* a session goes on to its next step after a failed action
C35_Witness ==
  /\ pc = "await_delay" /\ executionResult # NoExecution
  /\ ~executionResult.actionResult.success
  /\ executionResult.screenshotAfter
  /\ feedbackStep = stepNumber - 1
  /\ currentTest.steps[feedbackStep].success = FALSE

\* ---------------------------------------------------------------------
\* The driver's action logs over successive iterative sessions of one
\* executor.  The executor creates its driver once, in its constructor;
\* every session of the executor runs on that driver.  A log entry is
\* tagged with the session and step that executed the action.
\* ---------------------------------------------------------------------
MaxLogSessions == 2
MaxLogSteps == 6
RecentLimit == 5

\* getRecentLogs(limit): this.actionLogs.slice(-limit)
getRecentLogs(logs, limit) ==
  SubSeq(logs, Max(1, Len(logs) - limit + 1), Len(logs))

\* the while condition and the timeout check with stepNumber = sn
LogLoopTop(hasAction, sn) ==
  IF hasAction /\ sn <= MaxLogSteps
  THEN \E elapsed \in BOOLEAN :
         jpc' = IF elapsed THEN "returned" ELSE "await_execute"
  ELSE jpc' = "returned"

\* executeIterativeTest is called on the executor; an earlier session, if
\* any, has returned
StartIterativeTest ==
  /\ jpc \in {"idle", "returned"}
  /\ jSession < MaxLogSessions
  /\ jSession' = jSession + 1
  /\ jStepNumber' = 0
  /\ jpc' = "await_start_session"
  /\ UNCHANGED <<jActionLogs, jRecentLogs>>

\* the initial screenshot, the screen size and startIterativeSession
\* resolve with or without a first action, or one of them rejects
SessionStarted ==
  /\ jpc = "await_start_session"
  /\ \/ jpc' = "returned" /\ UNCHANGED jStepNumber
     \/ \E hasAction \in BOOLEAN :
          /\ jStepNumber' = 1
          /\ LogLoopTop(hasAction, 1)
  /\ UNCHANGED <<jSession, jActionLogs, jRecentLogs>>

\* executeActionWithLogging returns (its log pushed) and the feedback
\* request is built with getRecentLogs(5), or it throws before its try
ExecuteActionLogged ==
  /\ jpc = "await_execute"
  /\ \/ /\ jpc' = "returned"
        /\ UNCHANGED <<jActionLogs, jRecentLogs>>
     \/ /\ jActionLogs' =
             Append(jActionLogs, [session |-> jSession, step |-> jStepNumber])
        /\ jRecentLogs' = getRecentLogs(jActionLogs', RecentLimit)
        /\ jpc' = "await_feedback"
  /\ UNCHANGED <<jSession, jStepNumber>>

\* processIterativeFeedback rejects, ends the session, or names the next
\* action
FeedbackReceived ==
  /\ jpc = "await_feedback"
  /\ \/ jpc' = "returned" /\ UNCHANGED jStepNumber
     \/ /\ jStepNumber' = jStepNumber + 1
        /\ jpc' = "await_delay"
  /\ UNCHANGED <<jSession, jActionLogs, jRecentLogs>>

\* the inter-step delay ends
StepDelayDone ==
  /\ jpc = "await_delay"
  /\ LogLoopTop(TRUE, jStepNumber)
  /\ UNCHANGED <<jSession, jStepNumber, jActionLogs, jRecentLogs>>

NextLogs ==
  \/ StartIterativeTest /\ UNCHANGED <<coordVars, linearVars, iterVars, sessVars, typeVars, guideVars>>
  \/ SessionStarted /\ UNCHANGED <<coordVars, linearVars, iterVars, sessVars, typeVars, guideVars>>
  \/ ExecuteActionLogged /\ UNCHANGED <<coordVars, linearVars, iterVars, sessVars, typeVars, guideVars>>
  \/ FeedbackReceived /\ UNCHANGED <<coordVars, linearVars, iterVars, sessVars, typeVars, guideVars>>
  \/ StepDelayDone /\ UNCHANGED <<coordVars, linearVars, iterVars, sessVars, typeVars, guideVars>>

SpecLogs == Init /\ [][NextLogs]_vars

\* C36: the recent logs sent with a feedback request are at most five and
\* all of them were executed in the session that sends the request.
C36_RecentLogsOfThisSession ==
  jpc = "await_feedback" =>
    /\ Len(jRecentLogs) <= RecentLimit
    /\ \A i \in 1..Len(jRecentLogs) : jRecentLogs[i].session = jSession

\* C37: in typeEmailAtCoordinates, after the focus script ran on a match of
\* the locator, the element it focused is the element the locator returned.
C37_FocusedIsLocated ==
  (/\ tOp = "typeEmail" /\ tpc = "await_focus_check"
   /\ tLocated # NoLocated /\ tLocated.found)
    => tFocusTarget = tLocated.element

\* the input point snapped to whole pixels, floor(x + 0.5), in half pixels
SnappedInput == [x |-> Px(RoundHalfUp(cx)), y |-> Px(RoundHalfUp(cy))]

\* the returned point is not the snapped input point (NaN equals nothing)
DiffersFromSnapped ==
  \/ validated.nan
  \/ validated.x # SnappedInput.x
  \/ validated.y # SnappedInput.y

\* C38: _validateCoordinatesWithViewport reports wasAdjusted exactly when
\* the point it returns differs from the snapped input point.
C38_AdjustedIffMoved ==
  validated # NoValidation => (validated.wasAdjusted <=> DiffersFromSnapped)

\* a half-pixel value that is a whole number of pixels
WholePixel(v) == v % 2 = 0

\* C39: the x and y returned by _validateCoordinatesWithViewport are whole
\* pixels, for fractional input points too, the viewport size and scroll
\* offsets being whole pixels.
C39_ReturnsWholePixels ==
  (validated # NoValidation /\ ~validated.nan)
    => (WholePixel(validated.x) /\ WholePixel(validated.y))

\* executeIterativeTest called with an explicit options.maxSteps of
\* 1..MaxStepsOpt; the default of 10 runs the same loop with a larger limit
CallWithMaxSteps == Call /\ maxSteps' <= MaxStepsOpt

NextLive ==
  \/ CallWithMaxSteps /\ UNCHANGED <<coordVars, linearVars, sessVars, typeVars, guideVars, logVars>>
  \/ InitialScreenshot /\ UNCHANGED <<coordVars, linearVars, sessVars, typeVars, guideVars, logVars>>
  \/ ScreenSize /\ UNCHANGED <<coordVars, linearVars, sessVars, typeVars, guideVars, logVars>>
  \/ StartSession /\ UNCHANGED <<coordVars, linearVars, sessVars, typeVars, guideVars, logVars>>
  \/ ExecuteDone /\ UNCHANGED <<coordVars, linearVars, sessVars, typeVars, guideVars, logVars>>
  \/ FeedbackDone /\ UNCHANGED <<coordVars, linearVars, sessVars, typeVars, guideVars, logVars>>
  \/ DelayDone /\ UNCHANGED <<coordVars, linearVars, sessVars, typeVars, guideVars, logVars>>
  \/ stopIterativeTest /\ UNCHANGED <<coordVars, linearVars, sessVars, typeVars, guideVars, logVars>>

\* Every driver call, AI-backend call and timer of a session eventually
\* returns or throws: each await of executeIterativeTest is resumed.  No
\* fairness is asked of the call itself (nobody has to start a session) nor
\* of stopIterativeTest (nobody has to stop one).
SpecLive ==
  /\ Init /\ [][NextLive]_vars
  /\ WF_iterVars(InitialScreenshot) /\ WF_iterVars(ScreenSize)
  /\ WF_iterVars(StartSession) /\ WF_iterVars(ExecuteDone)
  /\ WF_iterVars(FeedbackDone) /\ WF_iterVars(DelayDone)

\* C40: every call of executeIterativeTest eventually returns a result with
\* a terminal status, and never starts more than maxSteps loop iterations.
C40_SessionTerminates ==
  /\ (pc # "idle") ~> (/\ pc = "returned" /\ result # NoResult
                       /\ result.status \in TerminalStatuses)
  /\ [](execCalls <= maxSteps)

\* a session that ran all its maxSteps iterations has returned
C40_Witness ==
  /\ pc = "returned" /\ maxSteps = MaxStepsOpt /\ execCalls = maxSteps
  /\ result.status = "max_steps_reached"

====
